---- MODULE Spec2Model ----
(***************************************************************************)
(* Model of the cashback-partners pipeline:                                *)
(*   scripts/combine.py         helpers, reward classifier, the 8 loaders  *)
(*                              and main (the aggregator)                  *)
(*   scripts/bankrespublika.py  parse_partners / main (table scraper)      *)
(*   scripts/tamkart.py         extract_js_array, parse_js_array, main     *)
(*   scripts/bolkart.py         flatten_partner and its CSV row            *)
(*                                                                         *)
(* Text is modelled as a sequence of one-character strings, so that        *)
(* strip(), replace() and float() are computed character by character.     *)
(***************************************************************************)
EXTENDS Integers, Sequences, FiniteSets, TLC

VARIABLES
    \* ---- one call of combine._reward_type
    rt_pc, rt_cashback, rt_taksit, rt_source, rt_result,
    \* ---- combine.main (two consecutive runs over the same data directory)
    files, pc, li, all_rows, printed, total, out_header, out, run, prev_out,
    \* ---- bankrespublika.parse_partners / main
    br_trs, br_pc, br_i, br_rows, br_log, br_csv,
    \* ---- one call of combine._cashback_num
    cb_pc, cb_raw, cb_result,
    \* ---- tamkart.main: extract_js_array (one loop iteration per step),
    \*      parse_js_array, flatten and write
    tk_js, tk_pc, tk_start, tk_i, tk_depth, tk_in_str, tk_escape, tk_str_char,
    tk_end, tk_arr, tk_partners, tk_csv, tk_caller, tk_err,
    \* ---- bolkart.flatten_partner -> bolkart.csv -> combine.load_bolkart
    bk_p, bk_pc, bk_row, bk_rec,
    \* ---- tamkart.parse_js_array on a literal and on its strict-JSON equivalent
    pj_pc, pj_loose, pj_strict, pj_out_loose, pj_out_strict,
    \* ---- one call of birbank._join_strapi_list
    js_pc, js_obj, js_key, js_out,
    \* ---- unibank.main: one loop iteration per step; ub_accepted lists the
    \*      row lists that were extended into all_rows
    ub_site, ub_pc, ub_page, ub_all_rows, ub_seen_first_id, ub_accepted, ub_csv,
    \* ---- rabitabank.main: one fetch attempt per step; rb_requests lists the
    \*      calls of fetch_page and how each ended
    rb_site, rb_pc, rb_page, rb_attempt, rb_all_rows, rb_requests, rb_csv,
    \* ---- bolkart.main and birbank.main: one fetch attempt per step;
    \*      pg_requests lists the attempts and how each ended
    pg_scraper, pg_site, pg_pc, pg_page, pg_attempt, pg_total_pages, pg_all_rows, pg_requests, pg_csv

rt_vars == <<rt_pc, rt_cashback, rt_taksit, rt_source, rt_result>>
cm_vars == <<files, pc, li, all_rows, printed, total, out_header, out, run, prev_out>>
br_vars == <<br_trs, br_pc, br_i, br_rows, br_log, br_csv>>
cb_vars == <<cb_pc, cb_raw, cb_result>>
tk_vars == <<tk_js, tk_pc, tk_start, tk_i, tk_depth, tk_in_str, tk_escape,
             tk_str_char, tk_end, tk_arr, tk_partners, tk_csv, tk_caller,
             tk_err>>
bk_vars == <<bk_p, bk_pc, bk_row, bk_rec>>
pj_vars == <<pj_pc, pj_loose, pj_strict, pj_out_loose, pj_out_strict>>
js_vars == <<js_pc, js_obj, js_key, js_out>>
ub_vars == <<ub_site, ub_pc, ub_page, ub_all_rows, ub_seen_first_id, ub_accepted, ub_csv>>
rb_vars == <<rb_site, rb_pc, rb_page, rb_attempt, rb_all_rows, rb_requests, rb_csv>>
pg_vars == <<pg_scraper, pg_site, pg_pc, pg_page, pg_attempt, pg_total_pages, pg_all_rows, pg_requests, pg_csv>>
vars == <<rt_vars, cm_vars, br_vars, cb_vars, tk_vars, bk_vars, pj_vars, js_vars, ub_vars, rb_vars, pg_vars>>

\* what each specification leaves alone
rt_rest == <<cm_vars, br_vars, cb_vars, tk_vars, bk_vars, pj_vars, js_vars, ub_vars, rb_vars, pg_vars>>
cm_rest == <<rt_vars, br_vars, cb_vars, tk_vars, bk_vars, pj_vars, js_vars, ub_vars, rb_vars, pg_vars>>
br_rest == <<rt_vars, cm_vars, cb_vars, tk_vars, bk_vars, pj_vars, js_vars, ub_vars, rb_vars, pg_vars>>
cb_rest == <<rt_vars, cm_vars, br_vars, tk_vars, bk_vars, pj_vars, js_vars, ub_vars, rb_vars, pg_vars>>
tk_rest == <<rt_vars, cm_vars, br_vars, cb_vars, bk_vars, pj_vars, js_vars, ub_vars, rb_vars, pg_vars>>
bk_rest == <<rt_vars, cm_vars, br_vars, cb_vars, tk_vars, pj_vars, js_vars, ub_vars, rb_vars, pg_vars>>
pj_rest == <<rt_vars, cm_vars, br_vars, cb_vars, tk_vars, bk_vars, js_vars, ub_vars, rb_vars, pg_vars>>
js_rest == <<rt_vars, cm_vars, br_vars, cb_vars, tk_vars, bk_vars, pj_vars, ub_vars, rb_vars, pg_vars>>
ub_rest == <<rt_vars, cm_vars, br_vars, cb_vars, tk_vars, bk_vars, pj_vars, js_vars, rb_vars, pg_vars>>
rb_rest == <<rt_vars, cm_vars, br_vars, cb_vars, tk_vars, bk_vars, pj_vars, js_vars, ub_vars, pg_vars>>
pg_rest == <<rt_vars, cm_vars, br_vars, cb_vars, tk_vars, bk_vars, pj_vars, js_vars, ub_vars, rb_vars>>

(***************************************************************************)
(* Bounds of the model                                                     *)
(***************************************************************************)
\* longest cashback text handed to one call of the classifier
MaxLen == 3
\* rows in the whole data directory (all 8 CSV files together)
MaxTotalRows == 2
\* elements of one bolkart partner's taksits list
MaxTaksits == 2
\* characters of the chunk text after the prefix (every text up to this length)
MaxBody == 3
\* elements of an array inside a generated literal
MaxItems == 2
\* <tr> blocks in the bank respublika page
MaxTrs == 2

(***************************************************************************)
(* Text helpers (Python str methods)                                       *)
(***************************************************************************)
\* characters str.strip() removes
Whitespace == {" ", "\t"}

Digits == {"0", "1", "2", "3", "4", "5", "6", "7", "8", "9"}

RECURSIVE lstrip(_)
lstrip(s) ==
    IF s = <<>> THEN s
    ELSE IF Head(s) \in Whitespace THEN lstrip(Tail(s)) ELSE s

RECURSIVE rstrip(_)
rstrip(s) ==
    IF s = <<>> THEN s
    ELSE IF s[Len(s)] \in Whitespace THEN rstrip(SubSeq(s, 1, Len(s) - 1)) ELSE s

\* str.strip()
strip(s) == rstrip(lstrip(s))

\* str.replace(c, "") for a one-character c
RECURSIVE remove_char(_, _)
remove_char(s, c) ==
    IF s = <<>> THEN s
    ELSE IF Head(s) = c THEN remove_char(Tail(s), c)
    ELSE <<Head(s)>> \o remove_char(Tail(s), c)

\* str.lower() on the letters float() looks at
lower_char(c) ==
    CASE c = "N" -> "n" [] c = "A" -> "a" [] c = "I" -> "i" [] c = "F" -> "f"
      [] c = "T" -> "t" [] c = "Y" -> "y" [] OTHER -> c

lower(s) == [k \in 1..Len(s) |-> lower_char(s[k])]

\* all texts over alphabet A of length 0..n
TextsUpTo(A, n) == UNION {[1..k -> A] : k \in 0..n}

(***************************************************************************)
(* float(text) and str(float)                                              *)
(*   kind "err" is ValueError; "num" carries sign, integer digits and      *)
(*   fraction digits; exponent and digit-separator forms need characters   *)
(*   ("e", "_") that no modelled input holds.                              *)
(***************************************************************************)
FloatErr == [kind |-> "err", neg |-> FALSE, ip |-> <<>>, fp |-> <<>>]

dot_positions(s) == {k \in 1..Len(s) : s[k] = "."}

all_digits(s) == \A k \in 1..Len(s) : s[k] \in Digits

parse_decimal(neg, body) ==
    LET dots == dot_positions(body)
        d    == IF dots = {} THEN Len(body) + 1 ELSE CHOOSE k \in dots : TRUE
        ip   == SubSeq(body, 1, d - 1)
        fp   == SubSeq(body, d + 1, Len(body))
    IN  IF Cardinality(dots) <= 1 /\ all_digits(ip) /\ all_digits(fp)
           /\ Len(ip) + Len(fp) >= 1
        THEN [kind |-> "num", neg |-> neg, ip |-> ip, fp |-> fp]
        ELSE FloatErr

float(text) ==
    LET t      == strip(text)
        signed == t # <<>> /\ Head(t) \in {"+", "-"}
        neg    == signed /\ Head(t) = "-"
        body   == IF signed THEN Tail(t) ELSE t
        low    == lower(body)
    IN  IF low = <<"n", "a", "n">>
        THEN [kind |-> "nan", neg |-> FALSE, ip |-> <<>>, fp |-> <<>>]
        ELSE IF low \in {<<"i", "n", "f">>, <<"i", "n", "f", "i", "n", "i", "t", "y">>}
        THEN [kind |-> "inf", neg |-> neg, ip |-> <<>>, fp |-> <<>>]
        ELSE parse_decimal(neg, body)

has_nonzero_digit(s) == \E k \in 1..Len(s) : s[k] # "0"

\* float(x) > 0
float_gt_zero(p) ==
    \/ p.kind = "inf" /\ ~p.neg
    \/ p.kind = "num" /\ ~p.neg /\ (has_nonzero_digit(p.ip) \/ has_nonzero_digit(p.fp))

RECURSIVE strip_leading_zeros(_)
strip_leading_zeros(s) ==
    IF s = <<>> THEN <<"0">>
    ELSE IF Head(s) = "0" THEN strip_leading_zeros(Tail(s)) ELSE s

RECURSIVE strip_trailing_zeros(_)
strip_trailing_zeros(s) ==
    IF s = <<>> THEN <<"0">>
    ELSE IF s[Len(s)] = "0" THEN strip_trailing_zeros(SubSeq(s, 1, Len(s) - 1)) ELSE s

\* str(float): the positional form repr uses for 1e-4 <= |x| < 1e16 and for 0
float_str(p) ==
    IF p.kind = "nan" THEN <<"n", "a", "n">>
    ELSE IF p.kind = "inf"
    THEN (IF p.neg THEN <<"-">> ELSE <<>>) \o <<"i", "n", "f">>
    ELSE (IF p.neg THEN <<"-">> ELSE <<>>)
         \o strip_leading_zeros(p.ip) \o <<".">> \o strip_trailing_zeros(p.fp)

(***************************************************************************)
(* combine.py helpers                                                      *)
(***************************************************************************)
\* str(v or "").strip()
_clean(v) == strip(v)

\* the last character dropped when it is c
drop_trailing(s, c) ==
    IF s # <<>> /\ s[Len(s)] = c THEN SubSeq(s, 1, Len(s) - 1) ELSE s

\* _cashback_num with rstrip("%") for replace("%", "") in line 55
_cashback_num_trailing_only(raw) ==
    LET r == strip(drop_trailing(_clean(raw), "%"))
        p == float(r)
    IN  IF r = <<>> THEN <<>>
        ELSE IF p.kind = "err" THEN r
        ELSE float_str(p)

\* Normalise cashback to a plain number string (strip %, handle empty)
_cashback_num(raw) ==
    LET r == strip(remove_char(_clean(raw), "%"))
        p == float(r)
    IN  IF r = <<>> THEN <<>>
        ELSE IF p.kind = "err" THEN r
        ELSE float_str(p)

Sources == {"bolkart", "tamkart", "birbank", "rabitabank",
            "unibank", "xalqbank", "pashabank", "bankrespublika"}

RewardTypes == {"cashback", "miles", "taksit_only", "unknown"}

\* _reward_type without the miles override of line 63
_reward_type_no_miles(cashback, taksit, source) ==
    LET cb == strip(cashback)
        p  == float(cb)
    IN  IF cb # <<>> /\ p.kind # "err" /\ float_gt_zero(p) THEN "cashback"
        ELSE IF cb # <<>> /\ p.kind = "err" THEN "cashback"
        ELSE IF strip(taksit) # <<>> THEN "taksit_only"
        ELSE "unknown"

\* _reward_type with `>= 0` for `> 0` in line 67
_reward_type_ge_zero(cashback, taksit, source) ==
    IF source = "pashabank" THEN "miles"
    ELSE LET cb == strip(cashback)
             p  == float(cb)
         IN  IF cb # <<>> /\ p.kind # "err" /\ ~p.neg /\ p.kind # "nan" THEN "cashback"
             ELSE IF cb # <<>> /\ p.kind = "err" THEN "cashback"
             ELSE IF strip(taksit) # <<>> THEN "taksit_only"
             ELSE "unknown"

\* _reward_type whose except branch (lines 69-71) only passes
_reward_type_except_pass(cashback, taksit, source) ==
    IF source = "pashabank" THEN "miles"
    ELSE LET cb == strip(cashback)
             p  == float(cb)
         IN  IF cb # <<>> /\ p.kind # "err" /\ float_gt_zero(p) THEN "cashback"
             ELSE IF strip(taksit) # <<>> THEN "taksit_only"
             ELSE "unknown"

\* _reward_type without the try/except of lines 66-71: the ValueError escapes
_reward_type_no_except(cashback, taksit, source) ==
    IF source = "pashabank" THEN "miles"
    ELSE LET cb == strip(cashback)
             p  == float(cb)
         IN  IF cb # <<>> /\ p.kind = "err" THEN "ValueError"
             ELSE IF cb # <<>> /\ float_gt_zero(p) THEN "cashback"
             ELSE IF strip(taksit) # <<>> THEN "taksit_only"
             ELSE "unknown"

_reward_type(cashback, taksit, source) ==
    IF source = "pashabank" THEN "miles"
    ELSE LET cb == strip(cashback)
             p  == float(cb)
         IN  IF cb # <<>> /\ p.kind # "err" /\ float_gt_zero(p) THEN "cashback"
             ELSE IF cb # <<>> /\ p.kind = "err" THEN "cashback"
             ELSE IF strip(taksit) # <<>> THEN "taksit_only"
             ELSE "unknown"

(***************************************************************************)
(* Idle values: what a specification leaves alone                          *)
(***************************************************************************)
RtIdle ==
    /\ rt_pc = "idle" /\ rt_cashback = <<>> /\ rt_taksit = <<>>
    /\ rt_source = "" /\ rt_result = ""

CmIdle ==
    /\ files = <<>> /\ pc = "idle" /\ li = 0 /\ all_rows = <<>> /\ printed = <<>>
    /\ total = 0 /\ out_header = <<>> /\ out = <<>> /\ run = 0 /\ prev_out = <<>>

BrIdle ==
    /\ br_trs = <<>> /\ br_pc = "idle" /\ br_i = 0 /\ br_rows = <<>>
    /\ br_log = <<>> /\ br_csv = <<>>

CbIdle == cb_pc = "idle" /\ cb_raw = <<>> /\ cb_result = <<>>

TkIdle ==
    /\ tk_js = <<>> /\ tk_pc = "idle" /\ tk_start = 0 /\ tk_i = 0 /\ tk_depth = 0
    /\ tk_in_str = FALSE /\ tk_escape = FALSE /\ tk_str_char = ""
    /\ tk_end = 0 /\ tk_arr = <<>> /\ tk_partners = <<>>
    /\ tk_csv = [written |-> FALSE, header |-> <<>>, rows |-> <<>>]
    /\ tk_caller = "" /\ tk_err = ""

BkIdle == bk_p = <<>> /\ bk_pc = "idle" /\ bk_row = <<>> /\ bk_rec = <<>>

PjIdle ==
    /\ pj_pc = "idle" /\ pj_loose = <<>> /\ pj_strict = <<>>
    /\ pj_out_loose = <<>> /\ pj_out_strict = <<>>

JsIdle == js_pc = "idle" /\ js_obj = <<>> /\ js_key = "" /\ js_out = <<>>

UbIdle == 
    /\ ub_site = <<>> /\ ub_pc = "idle" /\ ub_page = 0 /\ ub_all_rows = <<>>
    /\ ub_seen_first_id = <<>> /\ ub_accepted = <<>> /\ ub_csv = <<>>

RbIdle == 
    /\ rb_site = <<>> /\ rb_pc = "idle" /\ rb_page = 0 /\ rb_attempt = 0
    /\ rb_all_rows = <<>> /\ rb_requests = <<>> /\ rb_csv = <<>>

PgIdle == 
    /\ pg_scraper = "" /\ pg_site = <<>> /\ pg_pc = "idle" /\ pg_page = 0
    /\ pg_attempt = 0 /\ pg_total_pages = 0 /\ pg_all_rows = <<>>
    /\ pg_requests = <<>> /\ pg_csv = <<>>

RtRestIdle == CmIdle /\ BrIdle /\ CbIdle /\ TkIdle /\ BkIdle /\ PjIdle /\ JsIdle /\ UbIdle /\ RbIdle /\ PgIdle
CmRestIdle == RtIdle /\ BrIdle /\ CbIdle /\ TkIdle /\ BkIdle /\ PjIdle /\ JsIdle /\ UbIdle /\ RbIdle /\ PgIdle
BrRestIdle == RtIdle /\ CmIdle /\ CbIdle /\ TkIdle /\ BkIdle /\ PjIdle /\ JsIdle /\ UbIdle /\ RbIdle /\ PgIdle
CbRestIdle == RtIdle /\ CmIdle /\ BrIdle /\ TkIdle /\ BkIdle /\ PjIdle /\ JsIdle /\ UbIdle /\ RbIdle /\ PgIdle
TkRestIdle == RtIdle /\ CmIdle /\ BrIdle /\ CbIdle /\ BkIdle /\ PjIdle /\ JsIdle /\ UbIdle /\ RbIdle /\ PgIdle
BkRestIdle == RtIdle /\ CmIdle /\ BrIdle /\ CbIdle /\ TkIdle /\ PjIdle /\ JsIdle /\ UbIdle /\ RbIdle /\ PgIdle
PjRestIdle == RtIdle /\ CmIdle /\ BrIdle /\ CbIdle /\ TkIdle /\ BkIdle /\ JsIdle /\ UbIdle /\ RbIdle /\ PgIdle
JsRestIdle == RtIdle /\ CmIdle /\ BrIdle /\ CbIdle /\ TkIdle /\ BkIdle /\ PjIdle /\ UbIdle /\ RbIdle /\ PgIdle
UbRestIdle == RtIdle /\ CmIdle /\ BrIdle /\ CbIdle /\ TkIdle /\ BkIdle /\ PjIdle /\ JsIdle /\ RbIdle /\ PgIdle
RbRestIdle == RtIdle /\ CmIdle /\ BrIdle /\ CbIdle /\ TkIdle /\ BkIdle /\ PjIdle /\ JsIdle /\ UbIdle /\ PgIdle
PgRestIdle == RtIdle /\ CmIdle /\ BrIdle /\ CbIdle /\ TkIdle /\ BkIdle /\ PjIdle /\ JsIdle /\ UbIdle /\ RbIdle

(***************************************************************************)
(* SpecRT: one call of _reward_type on arbitrary text                      *)
(***************************************************************************)
RtAlphabet == {" ", "%", "-", ".", "0", "5", "n", "a"}

RtCashbacks == TextsUpTo(RtAlphabet, MaxLen)

RtTaksits == {<<>>, <<" ">>, <<"3">>, <<"3", ",", "6">>}

RtInit ==
    /\ rt_pc = "called"
    /\ rt_cashback \in RtCashbacks
    /\ rt_taksit \in RtTaksits
    /\ rt_source \in Sources
    /\ rt_result = ""
    /\ RtRestIdle

RtCall ==
    /\ rt_pc = "called"
    /\ rt_result' = _reward_type(rt_cashback, rt_taksit, rt_source)
    /\ rt_pc' = "returned"
    /\ UNCHANGED <<rt_cashback, rt_taksit, rt_source, rt_rest>>

RtNext == RtCall

SpecRT == RtInit /\ [][RtNext]_vars

rt_cb == strip(rt_cashback)

rt_is_number == float(rt_cb).kind # "err"

\* C1: for every cashback and taksit text the call with source pashabank
\* returns miles, and a call with any other source never returns miles.
C1_MilesIffPashabank ==
    rt_pc = "returned" => (rt_result = "miles" <=> rt_source = "pashabank")

C1_Witness ==
    /\ rt_pc = "returned" /\ rt_source = "pashabank" /\ rt_result = "miles"
    /\ rt_cashback = <<"0">> /\ rt_taksit = <<"3", ",", "6">>

\* C2: for a source other than pashabank and a cashback that is empty (after
\* trimming) or parses as a number, the result is cashback exactly when the
\* number is > 0; otherwise it is taksit_only when taksit_months holds
\* anything but blanks, and unknown when it does not.
C2_NumericCashback ==
    (rt_pc = "returned" /\ rt_source # "pashabank" /\ (rt_cb = <<>> \/ rt_is_number))
    => rt_result =
         IF rt_cb # <<>> /\ float_gt_zero(float(rt_cb)) THEN "cashback"
         ELSE IF strip(rt_taksit) # <<>> THEN "taksit_only"
         ELSE "unknown"

C2_Witness ==
    /\ rt_pc = "returned" /\ rt_source = "bolkart"
    /\ rt_cashback = <<"0">> /\ rt_taksit = <<"3", ",", "6">>
    /\ rt_result = "taksit_only"

\* C3: for a source other than pashabank, a cashback that is non-empty after
\* trimming and does not parse as a number is classified cashback, whatever
\* taksit_months holds.
C3_NonNumericIsCashback ==
    (rt_pc = "returned" /\ rt_source # "pashabank" /\ rt_cb # <<>> /\ ~rt_is_number)
    => rt_result = "cashback"

C3_Witness ==
    /\ rt_pc = "returned" /\ rt_source = "bolkart"
    /\ rt_cashback = <<"n", "a">> /\ rt_taksit = <<"3", ",", "6">>
    /\ rt_result = "cashback"

\* C4: the call always returns one of the four reward types (no exception
\* escapes), and when no rule matches (blank cashback, blank taksit_months,
\* source not pashabank) it returns unknown.
C4_Total ==
    rt_pc = "returned" =>
        /\ rt_result \in RewardTypes
        /\ (rt_source # "pashabank" /\ rt_cb = <<>> /\ strip(rt_taksit) = <<>>)
           => rt_result = "unknown"

C4_Witness ==
    /\ rt_pc = "returned" /\ rt_source = "tamkart"
    /\ rt_cashback = <<"-", ".">> /\ rt_taksit = <<" ">>
    /\ rt_result \in RewardTypes

(***************************************************************************)
(* combine.py: the per-source CSV files (rows of csv.DictReader)           *)
(***************************************************************************)
\* text of the columns the claims do not look at
Filler == <<" ", "x">>

PartnerId == <<"7">>

\* (name, cashback, taksit) of the sample rows a scraper may have written
RawSamples ==
    { << <<" ">>,      <<"0">>,           <<"3", ",", "6">> >>,
      << <<"A", " ">>, <<" ", "5", "%">>, <<>> >>,
      << <<"B">>,      <<>>,              <<>> >>,
      << <<"A", " ">>, <<"n", "/", "a">>, <<"3", ",", "6">> >>,
      << <<>>,         <<"-", "5">>,      <<"3", ",", "6">> >>,
      << <<"B">>,      <<"5", ".", "5", "0">>, <<" ">> >> }

raw_bolkart(n, c, t) ==
    [id |-> PartnerId, name_az |-> n, category_az |-> Filler, cashback |-> c,
     taksits |-> t, phone_number |-> Filler, site_url |-> Filler,
     logo_url |-> <<>>, icon_url |-> Filler]

raw_tamkart(n, c, t) ==
    [id |-> PartnerId, name |-> n, category |-> Filler, cashback |-> c,
     taksits |-> t, city |-> Filler, address |-> Filler]

raw_birbank(n, c, t) ==
    [id |-> PartnerId, name |-> n, categories |-> Filler, cashback |-> c,
     installments |-> t, cities |-> Filler, phone |-> Filler,
     website |-> Filler, image_url |-> Filler]

raw_rabitabank(n, c, t) ==
    [id |-> PartnerId, title |-> n, category |-> Filler, cash_back |-> c,
     url |-> Filler, image_url |-> Filler]

raw_unibank(n, c, t) ==
    [id |-> PartnerId, name |-> n, category |-> Filler, cashback_percent |-> c,
     taksit_months |-> t, detail_url |-> Filler, image_url |-> Filler]

raw_xalqbank(n, c, t) ==
    [id |-> PartnerId, title |-> n, category |-> Filler, cashback_percent |-> c,
     region |-> Filler, address |-> Filler, phone |-> Filler,
     website |-> Filler, image_url |-> Filler]

raw_pashabank(n, c, t) ==
    [name |-> n, category |-> Filler, miles_per_azn |-> c,
     condition |-> Filler, image_url |-> Filler]

raw_bankrespublika(n, c, t) ==
    [name |-> n, address |-> Filler, city |-> Filler]

raw_row(source, n, c, t) ==
    CASE source = "bolkart"        -> raw_bolkart(n, c, t)
      [] source = "tamkart"        -> raw_tamkart(n, c, t)
      [] source = "birbank"        -> raw_birbank(n, c, t)
      [] source = "rabitabank"     -> raw_rabitabank(n, c, t)
      [] source = "unibank"        -> raw_unibank(n, c, t)
      [] source = "xalqbank"       -> raw_xalqbank(n, c, t)
      [] source = "pashabank"      -> raw_pashabank(n, c, t)
      [] source = "bankrespublika" -> raw_bankrespublika(n, c, t)

\* the rows a scraper may have written: bankrespublika.py writes no row with an
\* empty name (parse_partners, `if not name: continue`), the others may
RawRows(source) ==
    {raw_row(source, x[1], x[2], x[3]) :
        x \in {y \in RawSamples : source = "bankrespublika" => strip(y[1]) # <<>>}}

(***************************************************************************)
(* combine.py: per-source transformers                                     *)
(***************************************************************************)
\* a or b on str
str_or(a, b) == IF a # <<>> THEN a ELSE b

load_bolkart(f) ==
    [k \in 1..Len(f) |->
        LET r      == f[k]
            cb     == _cashback_num(r.cashback)
            taksit == _clean(r.taksits)
        IN  [source |-> "bolkart", id |-> _clean(r.id), name |-> _clean(r.name_az),
             category |-> _clean(r.category_az), cashback |-> cb,
             reward_type |-> _reward_type(cb, taksit, "bolkart"),
             taksit_months |-> taksit, city |-> <<>>, address |-> <<>>,
             phone |-> _clean(r.phone_number), website |-> _clean(r.site_url),
             image_url |-> str_or(_clean(r.logo_url), _clean(r.icon_url))]]

load_tamkart(f) ==
    [k \in 1..Len(f) |->
        LET r      == f[k]
            cb     == _cashback_num(r.cashback)
            taksit == _clean(r.taksits)
        IN  [source |-> "tamkart", id |-> _clean(r.id), name |-> _clean(r.name),
             category |-> _clean(r.category), cashback |-> cb,
             reward_type |-> _reward_type(cb, taksit, "tamkart"),
             taksit_months |-> taksit, city |-> _clean(r.city),
             address |-> _clean(r.address), phone |-> <<>>, website |-> <<>>,
             image_url |-> <<>>]]

load_birbank(f) ==
    [k \in 1..Len(f) |->
        LET r      == f[k]
            cb     == _cashback_num(r.cashback)
            taksit == _clean(r.installments)
        IN  [source |-> "birbank", id |-> _clean(r.id), name |-> _clean(r.name),
             category |-> _clean(r.categories), cashback |-> cb,
             reward_type |-> _reward_type(cb, taksit, "birbank"),
             taksit_months |-> taksit, city |-> _clean(r.cities), address |-> <<>>,
             phone |-> _clean(r.phone), website |-> _clean(r.website),
             image_url |-> _clean(r.image_url)]]

load_rabitabank(f) ==
    [k \in 1..Len(f) |->
        LET r  == f[k]
            cb == _cashback_num(r.cash_back)
        IN  [source |-> "rabitabank", id |-> _clean(r.id), name |-> _clean(r.title),
             category |-> _clean(r.category), cashback |-> cb,
             reward_type |-> _reward_type(cb, <<>>, "rabitabank"),
             taksit_months |-> <<>>, city |-> <<>>, address |-> <<>>,
             phone |-> <<>>, website |-> _clean(r.url),
             image_url |-> _clean(r.image_url)]]

load_unibank(f) ==
    [k \in 1..Len(f) |->
        LET r      == f[k]
            cb     == _cashback_num(r.cashback_percent)
            taksit == _clean(r.taksit_months)
        IN  [source |-> "unibank", id |-> _clean(r.id), name |-> _clean(r.name),
             category |-> _clean(r.category), cashback |-> cb,
             reward_type |-> _reward_type(cb, taksit, "unibank"),
             taksit_months |-> taksit, city |-> <<>>, address |-> <<>>,
             phone |-> <<>>, website |-> _clean(r.detail_url),
             image_url |-> _clean(r.image_url)]]

load_xalqbank(f) ==
    [k \in 1..Len(f) |->
        LET r  == f[k]
            cb == _cashback_num(r.cashback_percent)
        IN  [source |-> "xalqbank", id |-> _clean(r.id), name |-> _clean(r.title),
             category |-> _clean(r.category), cashback |-> cb,
             reward_type |-> _reward_type(cb, <<>>, "xalqbank"),
             taksit_months |-> <<>>, city |-> _clean(r.region),
             address |-> _clean(r.address), phone |-> _clean(r.phone),
             website |-> _clean(r.website), image_url |-> _clean(r.image_url)]]

\* load_pashabank with the reward_type of the cashback loaders' usual rows
load_pashabank_as_cashback(f) ==
    [k \in 1..Len(f) |->
        LET r  == f[k]
            cb == _cashback_num(r.miles_per_azn)
        IN  [source |-> "pashabank", id |-> <<>>, name |-> _clean(r.name),
             category |-> _clean(r.category), cashback |-> cb,
             reward_type |-> "cashback",
             taksit_months |-> <<>>, city |-> <<>>, address |-> _clean(r.condition),
             phone |-> <<>>, website |-> <<>>, image_url |-> _clean(r.image_url)]]

load_pashabank(f) ==
    [k \in 1..Len(f) |->
        LET r  == f[k]
            cb == _cashback_num(r.miles_per_azn)
        IN  [source |-> "pashabank", id |-> <<>>, name |-> _clean(r.name),
             category |-> _clean(r.category), cashback |-> cb,
             reward_type |-> "miles",
             taksit_months |-> <<>>, city |-> <<>>, address |-> _clean(r.condition),
             phone |-> <<>>, website |-> <<>>, image_url |-> _clean(r.image_url)]]

load_bankrespublika(f) ==
    [k \in 1..Len(f) |->
        LET r == f[k]
        IN  [source |-> "bankrespublika", id |-> <<>>, name |-> _clean(r.name),
             category |-> <<>>, cashback |-> <<>>, reward_type |-> "unknown",
             taksit_months |-> <<>>, city |-> _clean(r.city),
             address |-> _clean(r.address), phone |-> <<>>, website |-> <<>>,
             image_url |-> <<>>]]

(***************************************************************************)
(* combine.py: main                                                        *)
(***************************************************************************)
\* CSV_FIELDS with cashback and reward_type exchanged
CSV_FIELDS_swapped ==
    <<"source", "id", "name", "category", "reward_type", "cashback",
      "taksit_months", "city", "address", "phone", "website", "image_url">>

CSV_FIELDS ==
    <<"source", "id", "name", "category", "cashback", "reward_type",
      "taksit_months", "city", "address", "phone", "website", "image_url">>

\* LOADERS with load_tamkart and load_bolkart exchanged
LOADERS_swapped ==
    <<"tamkart", "bolkart", "birbank", "rabitabank",
      "unibank", "xalqbank", "pashabank", "bankrespublika">>

\* each loader is named by the source whose file it opens
LOADERS ==
    <<"bolkart", "tamkart", "birbank", "rabitabank",
      "unibank", "xalqbank", "pashabank", "bankrespublika">>

\* the CSV files of the data directory: <source>.csv
DATA_FILES ==
    <<"bolkart", "tamkart", "birbank", "rabitabank",
      "unibank", "xalqbank", "pashabank", "bankrespublika">>

\* position of a source's CSV file in the data directory
file_index(source) == CHOOSE i \in 1..Len(DATA_FILES) : DATA_FILES[i] = source

\* loader(): the loader reads its own file of the data directory
loader(source, dir) ==
    LET f == dir[file_index(source)]
    IN  CASE source = "bolkart"        -> load_bolkart(f)
          [] source = "tamkart"        -> load_tamkart(f)
          [] source = "birbank"        -> load_birbank(f)
          [] source = "rabitabank"     -> load_rabitabank(f)
          [] source = "unibank"        -> load_unibank(f)
          [] source = "xalqbank"       -> load_xalqbank(f)
          [] source = "pashabank"      -> load_pashabank(f)
          [] source = "bankrespublika" -> load_bankrespublika(f)

\* all_rows still holding what an earlier run of main left
stale_all_rows == all_rows

\* all_rows: list[dict] = []
fresh_all_rows == <<>>

\* the line printed for one loader, with the running total for the count
source_line_cumulative(rows, acc) ==
    [label |-> IF rows # <<>> THEN rows[1].source ELSE "?",
     n     |-> Len(acc) + Len(rows)]

\* print(f"  {source:20s}: {len(rows):>5} rows")
source_line(rows, acc) ==
    [label |-> IF rows # <<>> THEN rows[1].source ELSE "?",
     n     |-> Len(rows)]

\* csv.DictWriter(f, fieldnames=CSV_FIELDS).writerows(all_rows)
csv_rows(rows) ==
    [k \in 1..Len(rows) |-> [c \in 1..Len(CSV_FIELDS) |-> rows[k][CSV_FIELDS[c]]]]

\* the data directories of at most `budget` rows, files i..8
RECURSIVE DataDirs(_, _)
DataDirs(i, budget) ==
    IF i > Len(DATA_FILES) THEN {<<>>}
    ELSE UNION {
           {<<f>> \o rest : rest \in DataDirs(i + 1, budget - Len(f))} :
           f \in UNION {[1..n -> RawRows(DATA_FILES[i])] : n \in 0..budget} }

CmInit ==
    /\ files \in DataDirs(1, MaxTotalRows)
    /\ pc = "start" /\ li = 0 /\ all_rows = <<>> /\ printed = <<>>
    /\ total = 0 /\ out_header = <<>> /\ out = <<>> /\ run = 1 /\ prev_out = <<>>
    /\ CmRestIdle

MainStart ==
    /\ pc = "start"
    /\ all_rows' = fresh_all_rows
    /\ printed' = <<>>
    /\ li' = 1
    /\ pc' = "loop"
    /\ UNCHANGED <<files, total, out_header, out, run, prev_out, cm_rest>>

\* one iteration of `for loader in LOADERS`
MainLoad ==
    /\ pc = "loop"
    /\ LET rows == loader(LOADERS[li], files)
       IN  /\ printed' = Append(printed, source_line(rows, all_rows))
           /\ all_rows' = all_rows \o rows
    /\ IF li = Len(LOADERS)
       THEN pc' = "write" /\ li' = li
       ELSE pc' = "loop" /\ li' = li + 1
    /\ UNCHANGED <<files, total, out_header, out, run, prev_out, cm_rest>>

\* print total, write data.csv (writeheader, writerows)
MainWrite ==
    /\ pc = "write"
    /\ total' = Len(all_rows)
    /\ out_header' = CSV_FIELDS
    /\ out' = csv_rows(all_rows)
    /\ pc' = "done"
    /\ UNCHANGED <<files, li, all_rows, printed, run, prev_out, cm_rest>>

\* the script is run again on the same data directory
MainRerun ==
    /\ pc = "done" /\ run = 1
    /\ prev_out' = out
    /\ run' = 2
    /\ pc' = "start"
    /\ UNCHANGED <<files, li, all_rows, printed, total, out_header, out, cm_rest>>

CmNext == MainStart \/ MainLoad \/ MainWrite \/ MainRerun

Spec == CmInit /\ [][CmNext]_vars

(***************************************************************************)
(* Properties of combine.main                                              *)
(***************************************************************************)
\* column of a source's CSV file that holds the partner name
name_column(source) ==
    CASE source = "bolkart" -> "name_az"
      [] source \in {"rabitabank", "xalqbank"} -> "title"
      [] OTHER -> "name"

\* column of a source's CSV file that holds the reward value ("" when none)
cashback_column(source) ==
    CASE source \in {"bolkart", "tamkart", "birbank"} -> "cashback"
      [] source = "rabitabank" -> "cash_back"
      [] source \in {"unibank", "xalqbank"} -> "cashback_percent"
      [] source = "pashabank" -> "miles_per_azn"
      [] OTHER -> ""

RECURSIVE rows_before(_)
rows_before(i) == IF i <= 1 THEN 0 ELSE rows_before(i - 1) + Len(files[i - 1])

count_of(source) == Cardinality({k \in 1..Len(all_rows) : all_rows[k].source = source})

RECURSIVE sum_printed(_)
sum_printed(i) == IF i = 0 THEN 0 ELSE sum_printed(i - 1) + printed[i].n

\* C5: every record of the aggregated output has the reward_type that
\* _reward_type gives for the record's own cashback, taksit_months and source.
C5_RewardTypeRecomputes ==
    \A k \in 1..Len(all_rows) :
        all_rows[k].reward_type =
            _reward_type(all_rows[k].cashback, all_rows[k].taksit_months,
                         all_rows[k].source)

C5_Witness ==
    /\ pc = "done"
    /\ \E k \in 1..Len(all_rows) :
          all_rows[k].source = "pashabank" /\ all_rows[k].reward_type = "miles"
    /\ \E k \in 1..Len(all_rows) :
          all_rows[k].source = "bankrespublika" /\ all_rows[k].reward_type = "unknown"

\* C6: every record of the aggregated output has a name that is non-empty
\* after trimming (a row with a blank name yields no record).
C6_NamesNonEmpty ==
    \A k \in 1..Len(all_rows) : strip(all_rows[k].name) # <<>>

\* C8: the output is the concatenation of the loaders' outputs in LOADERS
\* order: row k of the i-th file is the record at position rows_before(i) + k,
\* it carries that loader's source tag and that row's name and reward value,
\* and the length is the sum of the files' lengths.
C8_Concatenation ==
    pc = "done" =>
        /\ Len(all_rows) = rows_before(9)
        /\ Len(out) = Len(all_rows)
        /\ \A i \in 1..8 : \A k \in 1..Len(files[i]) :
              LET rec == all_rows[rows_before(i) + k]
                  src == DATA_FILES[i]
              IN  /\ rec.source = src
                  /\ rec.name = strip(files[i][k][name_column(src)])
                  /\ cashback_column(src) # "" =>
                        rec.cashback = _cashback_num(files[i][k][cashback_column(src)])
                  /\ out[rows_before(i) + k][1] = src

C8_Witness ==
    /\ pc = "done"
    /\ Len(files[1]) = 0 /\ Len(files[2]) = 1 /\ Len(files[3]) = 1
    /\ Len(all_rows) = 2

\* C9 as stated: each of the 8 sources is reported, under its own name also
\* when it has no record, with the number of output records carrying its tag,
\* and the counts sum to the reported total.
C9_CountsAttributed ==
    pc = "done" =>
        /\ Len(printed) = 8
        /\ \A i \in 1..8 :
              /\ printed[i].label = DATA_FILES[i]
              /\ printed[i].n = count_of(DATA_FILES[i])
        /\ sum_printed(8) = total

\* C9 amended: the i-th reported count is the number of output records of the
\* i-th source; it is labelled with the source when non-zero and with "?" when
\* zero; the counts sum to the reported total.
C9_CountsByPosition ==
    pc = "done" =>
        /\ Len(printed) = 8
        /\ \A i \in 1..8 :
              /\ printed[i].n = count_of(DATA_FILES[i])
              /\ printed[i].label = IF printed[i].n > 0 THEN DATA_FILES[i] ELSE "?"
        /\ sum_printed(8) = total
        /\ total = Len(all_rows)

C9_Witness ==
    /\ pc = "done"
    /\ printed[1] = [label |-> "?", n |-> 0]
    /\ printed[2] = [label |-> "tamkart", n |-> 2]
    /\ total = 2

\* C10: a second run of main on the same data directory writes the same
\* output as the first.
C10_Deterministic ==
    (pc = "done" /\ run = 2) => out = prev_out

C10_Witness ==
    pc = "done" /\ run = 2 /\ Len(out) = 2 /\ out[1] # out[2]

\* C11: every record a loader emits has exactly the 12 fields source, id,
\* name, category, cashback, reward_type, taksit_months, city, address, phone,
\* website, image_url, and the written table has these 12 columns in this
\* order (header and every row).
C11_TwelveFields ==
    /\ \A k \in 1..Len(all_rows) :
          DOMAIN all_rows[k] =
              {"source", "id", "name", "category", "cashback", "reward_type",
               "taksit_months", "city", "address", "phone", "website", "image_url"}
    /\ pc = "done" =>
          /\ out_header =
                <<"source", "id", "name", "category", "cashback", "reward_type",
                  "taksit_months", "city", "address", "phone", "website", "image_url">>
          /\ Len(out) = Len(all_rows)
          /\ \A k \in 1..Len(out) :
                LET r == all_rows[k]
                IN  out[k] = <<r.source, r.id, r.name, r.category, r.cashback,
                               r.reward_type, r.taksit_months, r.city, r.address,
                               r.phone, r.website, r.image_url>>

C11_Witness ==
    /\ pc = "done" /\ Len(out) = 2
    /\ out[1][1] = "bolkart" /\ out[2][1] = "bankrespublika"
    /\ out[1][6] = "cashback" /\ out[1][5] = <<"5", ".", "0">>

(***************************************************************************)
(* bankrespublika.py: parse_partners and main                              *)
(*   A <td> cell is a sequence of tokens: characters, the tag "<b>" and    *)
(*   the entity "&nbsp;"; a <tr> is the sequence of its cells as           *)
(*   re.findall returns them.                                              *)
(***************************************************************************)
NBSP == "\\xa0"

\* re.sub(r"<[^>]+>", " ", raw)
tags_to_space(raw) == [k \in 1..Len(raw) |-> IF raw[k] = "<b>" THEN " " ELSE raw[k]]

\* characters the regex class \s matches
ReSpace == Whitespace \cup {NBSP}

\* re.sub(r"\s+", " ", text)
RECURSIVE collapse_ws(_)
collapse_ws(t) ==
    IF t = <<>> THEN t
    ELSE IF Head(t) \in ReSpace
         THEN IF Len(t) > 1 /\ t[2] \in ReSpace
              THEN collapse_ws(Tail(t))
              ELSE <<" ">> \o collapse_ws(Tail(t))
         ELSE <<Head(t)>> \o collapse_ws(Tail(t))

\* Remove HTML tags and collapse whitespace
strip_tags(raw) == strip(collapse_ws(tags_to_space(raw)))

\* html.unescape
unescape(t) == [k \in 1..Len(t) |-> IF t[k] = "&nbsp;" THEN NBSP ELSE t[k]]

\* .replace("\xa0", " ")
nbsp_to_space(t) == [k \in 1..Len(t) |-> IF t[k] = NBSP THEN " " ELSE t[k]]

\* html.unescape(strip_tags(td)).replace("\xa0", " ").strip()
cell_text(td) == strip(nbsp_to_space(unescape(strip_tags(td))))

BrAlphabet == {"A", " ", "<b>", "&nbsp;"}

BrCells == UNION {[1..n -> BrAlphabet] : n \in 0..2}

\* <tr> blocks: three cells, or a short row of one cell
BrTrs == {<<n, <<"S", "t">>, <<"B">> >> : n \in BrCells} \cup {<< <<"A">> >>}

BrPages ==
    [has_table : BOOLEAN, trs : UNION {[1..n -> BrTrs] : n \in 0..MaxTrs}]

BrInit ==
    /\ br_trs \in BrPages
    /\ br_pc = "parse" /\ br_i = 1 /\ br_rows = <<>>
    /\ br_log = <<>> /\ br_csv = <<>>
    /\ BrRestIdle

\* table_start == -1: raise ValueError
BrNoTable ==
    /\ br_pc = "parse" /\ ~br_trs.has_table
    /\ br_pc' = "error"
    /\ UNCHANGED <<br_trs, br_i, br_rows, br_log, br_csv, br_rest>>

\* one iteration of `for tr in re.findall(...)`
BrRow ==
    /\ br_pc = "parse" /\ br_trs.has_table /\ br_i <= Len(br_trs.trs)
    /\ LET tds  == br_trs.trs[br_i]
       IN  IF Len(tds) < 3
           THEN br_rows' = br_rows
           ELSE LET name    == cell_text(tds[1])
                    address == cell_text(tds[2])
                    city    == cell_text(tds[3])
                IN  IF name = <<>>
                    THEN br_rows' = br_rows
                    ELSE br_rows' = Append(br_rows,
                            [name |-> name, address |-> address, city |-> city])
    /\ br_i' = br_i + 1
    /\ UNCHANGED <<br_trs, br_pc, br_log, br_csv, br_rest>>

\* return rows; main prints the number parsed, writes the CSV, prints the
\* number saved (br_log holds the record counts main prints)
BrReturn ==
    /\ br_pc = "parse" /\ br_trs.has_table /\ br_i > Len(br_trs.trs)
    /\ br_log' = <<[label |-> "parsed", n |-> Len(br_rows)],
                   [label |-> "saved", n |-> Len(br_rows)]>>
    /\ br_csv' = br_rows
    /\ br_pc' = "done"
    /\ UNCHANGED <<br_trs, br_i, br_rows, br_rest>>

BrNext == BrNoTable \/ BrRow \/ BrReturn

SpecBR == BrInit /\ [][BrNext]_vars

\* the records of a page whose derived name is blank
br_dropped ==
    {k \in 1..Len(br_trs.trs) :
        Len(br_trs.trs[k]) >= 3 /\ cell_text(br_trs.trs[k][1]) = <<>>}

\* the records of a page with a name, in page order
RECURSIVE br_named(_)
br_named(trs) ==
    IF trs = <<>> THEN <<>>
    ELSE LET tds == Head(trs)
         IN  (IF Len(tds) >= 3 /\ strip(cell_text(tds[1])) # <<>>
              THEN <<[name |-> cell_text(tds[1]), address |-> cell_text(tds[2]),
                      city |-> cell_text(tds[3])]>>
              ELSE <<>>) \o br_named(Tail(trs))

\* the output holds exactly the named records, in page order
BrDropsOnlyBlankNames == br_pc = "done" => br_rows = br_named(br_trs.trs)

\* C7: a record whose derived name is blank is absent from the output, every
\* other record is emitted unchanged and in order, and a count the program
\* reports equals the number of dropped records.
C7_DropIsCounted ==
    br_pc = "done" =>
        /\ br_rows = br_named(br_trs.trs)
        /\ \E k \in 1..Len(br_log) : br_log[k].n = Cardinality(br_dropped)

(***************************************************************************)
(* SpecCB: one call of _cashback_num on arbitrary text                     *)
(***************************************************************************)
CbInit ==
    /\ cb_pc = "called"
    /\ cb_raw \in TextsUpTo(RtAlphabet, MaxLen)
    /\ cb_result = <<>>
    /\ CbRestIdle

CbCall ==
    /\ cb_pc = "called"
    /\ cb_result' = _cashback_num(cb_raw)
    /\ cb_pc' = "returned"
    /\ UNCHANGED <<cb_raw, cb_rest>>

CbNext == CbCall

SpecCB == CbInit /\ [][CbNext]_vars

not_percent(c) == c # "%"

\* what is stored for the text t that is left of the raw value
stored_for(t) ==
    IF t = <<>> THEN <<>>
    ELSE IF float(t).kind = "err" THEN t
    ELSE float_str(float(t))

\* C16 as stated: only one trailing % and the surrounding whitespace are
\* removed; the rest is stored as the canonical decimal when it parses and
\* verbatim (with any other %) when it does not; nothing left gives "".
C16_TrailingPercentOnly ==
    cb_pc = "returned" =>
        cb_result = stored_for(strip(drop_trailing(strip(cb_raw), "%")))

\* C16 amended: every % of the raw value, wherever it stands, and the
\* whitespace around what is left are removed; the rest is stored as the
\* canonical decimal when it parses and verbatim otherwise, so the stored
\* value never holds a %; nothing left gives "".
C16_EveryPercentRemoved ==
    cb_pc = "returned" =>
        /\ cb_result = stored_for(strip(SelectSeq(strip(cb_raw), not_percent)))
        /\ \A k \in 1..Len(cb_result) : cb_result[k] # "%"

C16_Witness ==
    cb_pc = "returned" /\ cb_raw = <<"%", "5">> /\ cb_result = <<"5", ".", "0">>

(***************************************************************************)
(* bolkart.py: flatten_partner, the row DictWriter writes, and             *)
(* combine.load_bolkart on that row                                        *)
(*   JSON values are tagged: none, str (text), int, list, obj (a function  *)
(*   from the keys that are present).                                      *)
(***************************************************************************)
PyNone == [t |-> "none"]
PyStr(s) == [t |-> "str", v |-> s]
PyInt(n) == [t |-> "int", v |-> n]
PyList(l) == [t |-> "list", v |-> l]
PyObj(f) == [t |-> "obj", v |-> f]
PyBool(b) == [t |-> "bool", v |-> b]
\* a number parsed from text, kept as its canonical decimal text
PyNum(text) == [t |-> "num", v |-> text]

EmptyObj == PyObj([k \in {} |-> PyNone])

\* bool(x)
truthy(x) ==
    CASE x.t = "none" -> FALSE
      [] x.t = "str"  -> x.v # <<>>
      [] x.t = "int"  -> x.v # 0
      [] x.t = "list" -> x.v # <<>>
      [] x.t = "obj"  -> DOMAIN x.v # {}
      [] x.t = "bool" -> x.v
      [] x.t = "num"  -> has_nonzero_digit(x.v)

\* x or y
py_or(x, y) == IF truthy(x) THEN x ELSE y

\* dict.get(key) / dict.get(key, default)
get_or(obj, key, default) == IF key \in DOMAIN obj.v THEN obj.v[key] ELSE default

get(obj, key) == get_or(obj, key, PyNone)

DigitChars == <<"0", "1", "2", "3", "4", "5", "6", "7", "8", "9">>

RECURSIVE int_str(_)
int_str(n) ==
    IF n < 10 THEN <<DigitChars[n + 1]>>
    ELSE int_str(n \div 10) \o <<DigitChars[(n % 10) + 1]>>

\* str(x) of a scalar
py_str(x) ==
    CASE x.t = "none" -> <<"N", "o", "n", "e">>
      [] x.t = "str"  -> x.v
      [] x.t = "int"  -> int_str(x.v)
      [] x.t = "num"  -> x.v

\* sep.join(parts)
RECURSIVE join(_, _)
join(sep, parts) ==
    IF parts = <<>> THEN <<>>
    ELSE IF Len(parts) = 1 THEN parts[1]
    ELSE parts[1] \o sep \o join(sep, Tail(parts))

\* Return (az, en, ru) from a multilingual field object: the az part
_multilang_az(obj, field) ==
    LET val == py_or(get(py_or(obj, EmptyObj), field), EmptyObj)
    IN  get(val, "az")

\* "; ".join(str(t.get("taksit")) for t in (p.get("taksits") or []))
bolkart_taksits(p) ==
    LET ts == py_or(get(p, "taksits"), PyList(<<>>)).v
    IN  join(<<";", " ">>, [k \in 1..Len(ts) |-> py_str(get(ts[k], "taksit"))])

\* Flatten a nested partner JSON object into a flat CSV row (the columns
\* combine.load_bolkart reads; the other 20 columns are built the same way)
bolkart_flatten_partner(p) ==
    LET cat == py_or(get(p, "partnerCategory"), EmptyObj)
    IN  [id           |-> get(p, "id"),
         name_az      |-> _multilang_az(p, "name"),
         category_az  |-> _multilang_az(cat, "name"),
         cashback     |-> get(p, "cashback"),
         taksits      |-> PyStr(bolkart_taksits(p)),
         phone_number |-> get(p, "phoneNumber"),
         site_url     |-> get(p, "siteUrl"),
         logo_url     |-> get(p, "logoUrl"),
         icon_url     |-> get_or(py_or(get(p, "icon"), EmptyObj), "url", PyStr(<<>>))]

\* the cell csv.DictWriter writes and csv.DictReader reads back
csv_cell(x) == IF x.t = "none" THEN <<>> ELSE py_str(x)

csv_row(d) == [c \in DOMAIN d |-> csv_cell(d[c])]

\* the fields of a partner object of the API, each present or absent
BkKeys == {"id", "name", "partnerCategory", "cashback", "phoneNumber",
           "siteUrl", "logoUrl", "icon"}

BkValue(k) ==
    CASE k = "id"              -> PyInt(17)
      [] k = "name"            -> PyObj([az |-> PyStr(<<"A", " ">>)])
      [] k = "partnerCategory" -> PyObj([name |-> PyObj([az |-> PyStr(<<"C">>)])])
      [] k = "cashback"        -> PyStr(<<"5", "%">>)
      [] k = "phoneNumber"     -> PyStr(<<"1", "2">>)
      [] k = "siteUrl"         -> PyStr(<<"u">>)
      [] k = "logoUrl"         -> PyStr(<<"l">>)
      [] k = "icon"            -> PyObj([url |-> PyStr(<<"i">>)])

\* the partners: every subset of the fields, without taksits or with a list
\* of at most MaxTaksits elements, each with or without its taksit
BkPartners ==
    LET items == {EmptyObj} \cup {PyObj([taksit |-> PyInt(n)]) : n \in {3, 6, 12}}
        lists == UNION {[1..n -> items] : n \in 0..MaxTaksits}
    IN  {PyObj([k \in present |-> BkValue(k)]) : present \in SUBSET BkKeys}
        \cup
        {PyObj([k \in present \cup {"taksits"} |->
                   IF k = "taksits" THEN PyList(ts) ELSE BkValue(k)]) :
            present \in SUBSET BkKeys, ts \in lists}

BkInit ==
    /\ bk_p \in BkPartners
    /\ bk_pc = "fetched" /\ bk_row = <<>> /\ bk_rec = <<>>
    /\ BkRestIdle

\* rows.append(flatten_partner(p)); writer.writerows(rows)
BkFlatten ==
    /\ bk_pc = "fetched"
    /\ bk_row' = csv_row(bolkart_flatten_partner(bk_p))
    /\ bk_pc' = "written"
    /\ UNCHANGED <<bk_p, bk_rec, bk_rest>>

\* combine.load_bolkart reads the row
BkLoad ==
    /\ bk_pc = "written"
    /\ bk_rec' = load_bolkart(<<bk_row>>)[1]
    /\ bk_pc' = "loaded"
    /\ UNCHANGED <<bk_p, bk_row, bk_rest>>

BkNext == BkFlatten \/ BkLoad

SpecBK == BkInit /\ [][BkNext]_vars

bk_absent(k) == k \notin DOMAIN bk_p.v

\* no element of taksits carries a taksit (or there is no taksits at all)
bk_no_taksit ==
    bk_absent("taksits")
    \/ \A k \in 1..Len(bk_p.v["taksits"].v) :
          "taksit" \notin DOMAIN bk_p.v["taksits"].v[k].v

\* the top-level fields of a partner: absent gives an empty value
BkAbsentTopLevelIsEmpty ==
    bk_pc = "loaded" =>
        /\ bk_absent("id") => bk_rec.id = <<>>
        /\ bk_absent("name") => bk_rec.name = <<>>
        /\ bk_absent("partnerCategory") => bk_rec.category = <<>>
        /\ bk_absent("cashback") => bk_rec.cashback = <<>>
        /\ bk_absent("phoneNumber") => bk_rec.phone = <<>>
        /\ bk_absent("siteUrl") => bk_rec.website = <<>>
        /\ (bk_absent("logoUrl") /\ bk_absent("icon")) => bk_rec.image_url = <<>>
        /\ bk_absent("taksits") => bk_rec.taksit_months = <<>>

\* C17: a raw record in which a field of the source's schema is absent is
\* still normalized (no exception), and the value that corresponds to the
\* absent field is empty, never a placeholder.
C17_AbsentIsEmpty ==
    /\ BkAbsentTopLevelIsEmpty
    /\ (bk_pc = "loaded" /\ bk_no_taksit) => bk_rec.taksit_months = <<>>

\* text.split(sep), sep one character
RECURSIVE split(_, _)
split(s, sep) ==
    IF \A k \in 1..Len(s) : s[k] # sep THEN <<s>>
    ELSE LET i == CHOOSE k \in 1..Len(s) :
                     s[k] = sep /\ \A j \in 1..(k - 1) : s[j] # sep
         IN  <<SubSeq(s, 1, i - 1)>> \o split(SubSeq(s, i + 1, Len(s)), sep)

\* int(digits)
RECURSIVE to_int(_)
to_int(d) ==
    IF d = <<>> THEN 0
    ELSE 10 * to_int(SubSeq(d, 1, Len(d) - 1))
         + (CHOOSE n \in 0..9 : DigitChars[n + 1] = d[Len(d)])

\* a comma-joined list of integers, ascending and without repetition
comma_joined_ascending(s) ==
    LET parts == [k \in 1..Len(split(s, ",")) |-> strip(split(s, ",")[k])]
    IN  /\ \A k \in 1..Len(parts) : parts[k] # <<>> /\ all_digits(parts[k])
        /\ \A k \in 1..(Len(parts) - 1) : to_int(parts[k]) < to_int(parts[k + 1])

\* every element of taksits carries its taksit (an integer)
bk_all_taksit ==
    bk_absent("taksits")
    \/ \A k \in 1..Len(bk_p.v["taksits"].v) :
          "taksit" \in DOMAIN bk_p.v["taksits"].v[k].v

\* C19: taksit_months of every record of the aggregated output is empty or a
\* comma-joined list of integers in ascending order without repetition (here:
\* the record combine builds from a row bolkart.py wrote for a partner whose
\* taksits all carry an integer).
C19_TaksitMonthsCanonical ==
    (bk_pc = "loaded" /\ bk_all_taksit) =>
        \/ bk_rec.taksit_months = <<>>
        \/ comma_joined_ascending(bk_rec.taksit_months)

(***************************************************************************)
(* tamkart.py: extract_js_array                                            *)
(*   Offsets are Python's (0-based): js[k] is tk_js[k + 1].                *)
(***************************************************************************)
\* "let s=["
Marker == <<"l", "e", "t", " ", "s", "=", "[">>

\* len("let s=")
MarkerPrefixLen == Len(Marker) - 1

\* s[a:b]
slice(s, a, b) == SubSeq(s, a + 1, b)

\* s.find(sub)
find(s, sub) ==
    LET hits == {i \in 0..(Len(s) - Len(sub)) : slice(s, i, i + Len(sub)) = sub}
    IN  IF hits = {} THEN -1
        ELSE CHOOSE i \in hits : \A j \in hits : i <= j

\* sub in s
contains(s, sub) == find(s, sub) >= 0

\* the back-quote character; a back quote cannot be written inside a TLA+
\* string, so the character is written by name
BackQuote == "BQ"

Quotes == {"\"", "'", BackQuote}

\* the first three statements with a check that can never fire: find gives
\* -1 at least, so start is never negative
locate_check_negative(js) ==
    LET start == find(js, Marker) + MarkerPrefixLen
    IN  IF start < 0 THEN [err |-> "ValueError", start |-> 0]
        ELSE [err |-> "", start |-> start]

\* start = js.find("let s=[") + len("let s="); raise ValueError if not found
locate(js) ==
    LET start == find(js, Marker) + MarkerPrefixLen
    IN  IF start < MarkerPrefixLen THEN [err |-> "ValueError", start |-> 0]
        ELSE [err |-> "", start |-> start]

\* the loop body with the brackets counted before the string test
scan_step_brackets_in_strings(st, ch) ==
    IF st.escape THEN [st EXCEPT !.escape = FALSE]
    ELSE IF ch = "\\" THEN [st EXCEPT !.escape = TRUE]
    ELSE IF ch = "[" THEN [st EXCEPT !.depth = @ + 1]
    ELSE IF ch = "]" THEN [st EXCEPT !.depth = @ - 1, !.brk = (st.depth - 1 = 0)]
    ELSE IF st.in_str
         THEN IF ch = st.str_char THEN [st EXCEPT !.in_str = FALSE] ELSE st
    ELSE IF ch \in Quotes THEN [st EXCEPT !.in_str = TRUE, !.str_char = ch]
    ELSE st

\* the loop body with the braces counted as well
scan_step_braces(st, ch) ==
    IF st.escape THEN [st EXCEPT !.escape = FALSE]
    ELSE IF ch = "\\" THEN [st EXCEPT !.escape = TRUE]
    ELSE IF st.in_str
         THEN IF ch = st.str_char THEN [st EXCEPT !.in_str = FALSE] ELSE st
    ELSE IF ch \in Quotes THEN [st EXCEPT !.in_str = TRUE, !.str_char = ch]
    ELSE IF ch \in {"[", "{"} THEN [st EXCEPT !.depth = @ + 1]
    ELSE IF ch \in {"]", "}"}
    THEN [st EXCEPT !.depth = @ - 1, !.brk = (st.depth - 1 = 0)]
    ELSE st

\* the loop body with the break one closing bracket late
scan_step_late_break(st, ch) ==
    IF st.escape THEN [st EXCEPT !.escape = FALSE]
    ELSE IF ch = "\\" THEN [st EXCEPT !.escape = TRUE]
    ELSE IF st.in_str
         THEN IF ch = st.str_char THEN [st EXCEPT !.in_str = FALSE] ELSE st
    ELSE IF ch \in Quotes THEN [st EXCEPT !.in_str = TRUE, !.str_char = ch]
    ELSE IF ch = "[" THEN [st EXCEPT !.depth = @ + 1]
    ELSE IF ch = "]" THEN [st EXCEPT !.depth = @ - 1, !.brk = (st.depth - 1 < 0)]
    ELSE st

\* the loop body with the escape flag left set
scan_step_sticky_escape(st, ch) ==
    IF st.escape THEN st
    ELSE IF ch = "\\" THEN [st EXCEPT !.escape = TRUE]
    ELSE IF st.in_str
         THEN IF ch = st.str_char THEN [st EXCEPT !.in_str = FALSE] ELSE st
    ELSE IF ch \in Quotes THEN [st EXCEPT !.in_str = TRUE, !.str_char = ch]
    ELSE IF ch = "[" THEN [st EXCEPT !.depth = @ + 1]
    ELSE IF ch = "]" THEN [st EXCEPT !.depth = @ - 1, !.brk = (st.depth - 1 = 0)]
    ELSE st

\* one iteration of the for loop on character ch; brk is the break
scan_step(st, ch) ==
    IF st.escape THEN [st EXCEPT !.escape = FALSE]
    ELSE IF ch = "\\" THEN [st EXCEPT !.escape = TRUE]
    ELSE IF st.in_str
         THEN IF ch = st.str_char THEN [st EXCEPT !.in_str = FALSE] ELSE st
    ELSE IF ch \in Quotes THEN [st EXCEPT !.in_str = TRUE, !.str_char = ch]
    ELSE IF ch = "[" THEN [st EXCEPT !.depth = @ + 1]
    ELSE IF ch = "]" THEN [st EXCEPT !.depth = @ - 1, !.brk = (st.depth - 1 = 0)]
    ELSE st

\* the characters of the exhaustively generated part of a chunk text
ScanAlphabet == {"[", "]", "{", "}", "\"", "'", BackQuote, "\\", "a"}

\* what precedes it: nothing, the assignment, the assignment in the chunk of
\* module 5243, and that chunk with an earlier occurrence of the marker
TkPrefixes ==
    { <<>>,
      <<"l", "e", "t", " ", "s", "=">>,
      <<"5", "2", "4", "3", "l", "e", "t", " ", "s", "=">>,
      <<"5", "2", "4", "3", "l", "e", "t", " ", "s", "=", "[", "]",
        "l", "e", "t", " ", "s", "=">> }

\* longer literals: an object whose string holds a bracket and an escaped
\* quote, followed by an array of numbers (alone and with more text after
\* it); one partner; an unquoted key, a single-quoted
\* bracket and trailing commas; back-quoted and single-quoted brackets; a
\* partner with a name, followed by more text; one empty partner; a nested
\* empty array
LitNested ==
    <<"[", "{", "\"", "a", "\"", ":", "\"", "a", "]", "a", "\\", "\"", "a",
      "\"", "}", ",", "[", "1", ",", "2", "]", "]">>

\* one partner with a name, a cashback and a map
LitPartner ==
    <<"[", "{", "n", "a", "m", "e", ":", "'", " ", "a", "'", ",", "c", "a",
    "s", "h", "b", "a", "c", "k", ":", "\"", "5", "%", "\"", ",", "m", "a",
    "p", ":", "'", "1", ",", " ", "2", "'", ",", "i", "d", ":", "7", "}",
    "]">>

TkLiterals ==
    { LitNested, LitNested \o <<"]", "a">>, LitPartner,
      <<"[", "{", "a", ":", "'", "[", "'", ",", "}", ",", "]">>,
      <<"[", BackQuote, "]", BackQuote, ",", "'", "]", "'", "]">>,
      <<"[", "{", "n", "a", "m", "e", ":", "'", "a", "'", "}", "]", "a">>,
      <<"[", "{", "}", "]">>,
      <<"[", "[", "]", "]">> }

TkTexts ==
    {p \o b : p \in TkPrefixes,
              b \in TextsUpTo(ScanAlphabet, MaxBody) \cup TkLiterals}

TkInit ==
    /\ tk_js \in TkTexts
    /\ tk_caller \in {"direct", "main"}
    /\ tk_pc = IF tk_caller = "main" THEN "find_chunk" ELSE "extract"
    /\ tk_start = 0 /\ tk_i = 0 /\ tk_depth = 0
    /\ tk_in_str = FALSE /\ tk_escape = FALSE /\ tk_str_char = ""
    /\ tk_end = 0 /\ tk_arr = <<>> /\ tk_partners = <<>>
    /\ tk_csv = [written |-> FALSE, header |-> <<>>, rows |-> <<>>]
    /\ tk_err = ""
    /\ TkRestIdle

\* main: js = find_partner_chunk(chunk_urls); if not js: sys.exit(...)
TkFindChunk ==
    /\ tk_pc = "find_chunk"
    /\ IF contains(tk_js, <<"5", "2", "4", "3">>) /\ contains(tk_js, Marker)
           /\ tk_js # <<>>
       THEN tk_pc' = "extract" /\ tk_err' = tk_err
       ELSE tk_pc' = "exit" /\ tk_err' = "SystemExit"
    /\ UNCHANGED <<tk_js, tk_start, tk_i, tk_depth, tk_in_str, tk_escape,
                   tk_str_char, tk_end, tk_arr, tk_partners, tk_csv, tk_caller,
                   tk_rest>>

\* extract_js_array, up to the loop
TkLocate ==
    /\ tk_pc = "extract"
    /\ LET r == locate(tk_js)
       IN  IF r.err # ""
           THEN /\ tk_pc' = "raised" /\ tk_err' = r.err
                /\ UNCHANGED <<tk_start, tk_i, tk_end>>
           ELSE /\ tk_pc' = "scan" /\ tk_err' = tk_err
                /\ tk_start' = r.start /\ tk_i' = r.start /\ tk_end' = r.start
    /\ tk_depth' = 0 /\ tk_in_str' = FALSE /\ tk_escape' = FALSE
    /\ tk_str_char' = ""
    /\ UNCHANGED <<tk_js, tk_arr, tk_partners, tk_csv, tk_caller, tk_rest>>

\* one iteration of the loop; on break, return js[start:end]
TkScanStep ==
    /\ tk_pc = "scan"
    /\ tk_i < Len(tk_js)
    /\ LET st == scan_step([depth |-> tk_depth, in_str |-> tk_in_str,
                            escape |-> tk_escape, str_char |-> tk_str_char,
                            brk |-> FALSE], tk_js[tk_i + 1])
       IN  /\ tk_depth' = st.depth /\ tk_in_str' = st.in_str
           /\ tk_escape' = st.escape /\ tk_str_char' = st.str_char
           /\ IF st.brk
              THEN /\ tk_end' = tk_i + 1
                   /\ tk_arr' = slice(tk_js, tk_start, tk_i + 1)
                   /\ tk_pc' = "returned"
                   /\ tk_i' = tk_i
              ELSE /\ tk_i' = tk_i + 1
                   /\ UNCHANGED <<tk_end, tk_arr, tk_pc>>
    /\ UNCHANGED <<tk_js, tk_start, tk_partners, tk_csv, tk_caller, tk_err,
                   tk_rest>>

\* the loop runs out of characters; return js[start:end] with end = start
TkScanEnd ==
    /\ tk_pc = "scan"
    /\ tk_i >= Len(tk_js)
    /\ tk_arr' = slice(tk_js, tk_start, tk_end)
    /\ tk_pc' = "returned"
    /\ UNCHANGED <<tk_js, tk_start, tk_i, tk_depth, tk_in_str, tk_escape,
                   tk_str_char, tk_end, tk_partners, tk_csv, tk_caller, tk_err,
                   tk_rest>>

(***************************************************************************)
(* The literal parser behind tamkart.parse_js_array                        *)
(*   parse_js_array hands the span to Node.js, whose code is not part of   *)
(*   the repository: the permissive reading (strict = FALSE) follows the   *)
(*   grammar of section 4.3 of the specification; the strict reading is    *)
(*   JSON, as json.loads reads the output of JSON.stringify.               *)
(*   A result is [ok, pos, val]: pos is the next position (1-based) or the *)
(*   position of the error.                                                *)
(***************************************************************************)
ParseFail(i) == [ok |-> FALSE, pos |-> i, val |-> PyNone]

ParseOk(i, v) == [ok |-> TRUE, pos |-> i, val |-> v]

JsWhitespace == {" ", "\t", "\n"}

Letters == {"a", "b", "c", "d", "e", "f", "g", "h", "i", "j", "k", "l", "m",
            "n", "o", "p", "q", "r", "s", "t", "u", "v", "w", "x", "y", "z"}

IdentStart == Letters \cup {"_", "$"}

WordChars == IdentStart \cup Digits

RECURSIVE skip_ws(_, _)
skip_ws(s, i) ==
    IF i <= Len(s) /\ s[i] \in JsWhitespace THEN skip_ws(s, i + 1) ELSE i

\* the position after the run of characters of set A that starts at i
RECURSIVE run_end(_, _, _)
run_end(s, i, A) ==
    IF i <= Len(s) /\ s[i] \in A THEN run_end(s, i + 1, A) ELSE i

\* string := quote chars quote (backslash-escaped); JSON knows the double
\* quote only and the escapes of the double quote, the backslash and the slash
RECURSIVE string_body(_, _, _, _, _)
string_body(s, j, q, strict, acc) ==
    IF j > Len(s) THEN ParseFail(j)
    ELSE IF s[j] = "\\"
    THEN IF j + 1 > Len(s) THEN ParseFail(j + 1)
         ELSE IF strict /\ s[j + 1] \notin {"\"", "\\", "/"} THEN ParseFail(j + 1)
         ELSE string_body(s, j + 2, q, strict, Append(acc, s[j + 1]))
    ELSE IF s[j] = q THEN ParseOk(j + 1, PyStr(acc))
    ELSE string_body(s, j + 1, q, strict, Append(acc, s[j]))

parse_string(s, i, strict) ==
    IF strict /\ s[i] # "\"" THEN ParseFail(i)
    ELSE string_body(s, i + 1, s[i], strict, <<>>)

\* the canonical text of a decimal number
num_text(neg, ip, fp) ==
    LET f    == IF has_nonzero_digit(fp) THEN strip_trailing_zeros(fp) ELSE <<>>
        zero == ~has_nonzero_digit(ip) /\ f = <<>>
    IN  (IF neg /\ ~zero THEN <<"-">> ELSE <<>>)
        \o ip \o (IF f = <<>> THEN <<>> ELSE <<".">> \o f)

\* number := standard decimal/integer literal, optional leading "-"
parse_number(s, i) ==
    LET neg == s[i] = "-"
        j   == IF neg THEN i + 1 ELSE i
        e   == run_end(s, j, Digits)
        ip  == SubSeq(s, j, e - 1)
        f   == run_end(s, e + 1, Digits)
        fp  == SubSeq(s, e + 1, f - 1)
    IN  IF ip = <<>> \/ (Len(ip) > 1 /\ ip[1] = "0") THEN ParseFail(j)
        ELSE IF e <= Len(s) /\ s[e] = "."
        THEN IF fp = <<>> THEN ParseFail(e + 1)
             ELSE ParseOk(f, PyNum(num_text(neg, ip, fp)))
        ELSE ParseOk(e, PyNum(num_text(neg, ip, <<>>)))

\* key := identifier | string; JSON knows the string only
parse_key(s, k, strict) ==
    IF k > Len(s) THEN ParseFail(k)
    ELSE IF s[k] \in Quotes THEN parse_string(s, k, strict)
    ELSE IF ~strict /\ s[k] \in IdentStart
    THEN ParseOk(run_end(s, k, WordChars),
                 PyStr(SubSeq(s, k, run_end(s, k, WordChars) - 1)))
    ELSE ParseFail(k)

\* a member stored in the object; a repeated key keeps the last value
obj_put(f, key, val) ==
    [x \in DOMAIN f \cup {key} |-> IF x = key THEN val ELSE f[x]]

RECURSIVE parse_value(_, _, _)
RECURSIVE array_rest(_, _, _, _)
RECURSIVE object_rest(_, _, _, _)

\* array := "[" [ value ("," value)* [","] ] "]", after the first bracket;
\* JSON has no trailing comma
array_rest(s, k, strict, acc) ==
    LET r == parse_value(s, k, strict)
    IN  IF ~r.ok THEN r
        ELSE LET k2    == skip_ws(s, r.pos)
                 items == Append(acc, r.val)
             IN  IF k2 > Len(s) THEN ParseFail(k2)
                 ELSE IF s[k2] = "]" THEN ParseOk(k2 + 1, PyList(items))
                 ELSE IF s[k2] = ","
                 THEN LET k3 == skip_ws(s, k2 + 1)
                      IN  IF ~strict /\ k3 <= Len(s) /\ s[k3] = "]"
                          THEN ParseOk(k3 + 1, PyList(items))
                          ELSE array_rest(s, k3, strict, items)
                 ELSE ParseFail(k2)

\* object := "{" [ member ("," member)* [","] ] "}", after the first brace;
\* member := key ":" value
object_rest(s, k, strict, f) ==
    LET kr == parse_key(s, k, strict)
        c  == skip_ws(s, kr.pos)
        r  == parse_value(s, c + 1, strict)
        k2 == skip_ws(s, r.pos)
        g  == obj_put(f, kr.val.v, r.val)
    IN  IF ~kr.ok THEN kr
        ELSE IF c > Len(s) \/ s[c] # ":" THEN ParseFail(c)
        ELSE IF ~r.ok THEN r
        ELSE IF k2 > Len(s) THEN ParseFail(k2)
        ELSE IF s[k2] = "}" THEN ParseOk(k2 + 1, PyObj(g))
        ELSE IF s[k2] = ","
        THEN LET k3 == skip_ws(s, k2 + 1)
             IN  IF ~strict /\ k3 <= Len(s) /\ s[k3] = "}"
                 THEN ParseOk(k3 + 1, PyObj(g))
                 ELSE object_rest(s, k3, strict, g)
        ELSE ParseFail(k2)

\* value := object | array | string | number | "true" | "false" | "null"
parse_value(s, i0, strict) ==
    LET i == skip_ws(s, i0)
        k == skip_ws(s, i + 1)
        e == run_end(s, i, WordChars)
        w == SubSeq(s, i, e - 1)
    IN  IF i > Len(s) THEN ParseFail(i)
        ELSE IF s[i] = "["
        THEN IF k <= Len(s) /\ s[k] = "]" THEN ParseOk(k + 1, PyList(<<>>))
             ELSE array_rest(s, k, strict, <<>>)
        ELSE IF s[i] = "{"
        THEN IF k <= Len(s) /\ s[k] = "}" THEN ParseOk(k + 1, EmptyObj)
             ELSE object_rest(s, k, strict, EmptyObj.v)
        ELSE IF s[i] \in Quotes THEN parse_string(s, i, strict)
        ELSE IF s[i] \in Digits \cup {"-"} THEN parse_number(s, i)
        ELSE IF w = <<"t", "r", "u", "e">> THEN ParseOk(e, PyBool(TRUE))
        ELSE IF w = <<"f", "a", "l", "s", "e">> THEN ParseOk(e, PyBool(FALSE))
        ELSE IF w = <<"n", "u", "l", "l">> THEN ParseOk(e, PyNone)
        ELSE ParseFail(i)

\* the whole text is one value
parse_literal(s, strict) ==
    LET r == parse_value(s, 1, strict)
    IN  IF r.ok /\ skip_ws(s, r.pos) <= Len(s) THEN ParseFail(skip_ws(s, r.pos))
        ELSE r

\* JSON.stringify on a value the parser built
RECURSIVE json_escape(_)
json_escape(chars) ==
    IF chars = <<>> THEN <<>>
    ELSE (IF Head(chars) \in {"\"", "\\"} THEN <<"\\", Head(chars)>>
          ELSE <<Head(chars)>>) \o json_escape(Tail(chars))

json_quote(chars) == <<"\"">> \o json_escape(chars) \o <<"\"">>

\* the keys of an object, one after the other
RECURSIVE keys_seq(_)
keys_seq(S) ==
    IF S = {} THEN <<>>
    ELSE LET k == CHOOSE x \in S : TRUE IN <<k>> \o keys_seq(S \ {k})

RECURSIVE json_stringify(_)
json_stringify(x) ==
    CASE x.t = "none" -> <<"n", "u", "l", "l">>
      [] x.t = "bool" -> IF x.v THEN <<"t", "r", "u", "e">>
                         ELSE <<"f", "a", "l", "s", "e">>
      [] x.t = "num"  -> x.v
      [] x.t = "str"  -> json_quote(x.v)
      [] x.t = "list" ->
            <<"[">> \o join(<<",">>, [k \in 1..Len(x.v) |-> json_stringify(x.v[k])])
            \o <<"]">>
      [] x.t = "obj"  ->
            LET ks == keys_seq(DOMAIN x.v)
            IN  <<"{">>
                \o join(<<",">>, [k \in 1..Len(ks) |->
                       json_quote(ks[k]) \o <<":">> \o json_stringify(x.v[ks[k]])])
                \o <<"}">>

\* node on process.stdout.write(JSON.stringify(<arr_str>));
node_eval(arr_str) ==
    LET r == parse_literal(arr_str, FALSE)
    IN  IF r.ok THEN [returncode |-> 0, stdout |-> json_stringify(r.val)]
        ELSE [returncode |-> 1, stdout |-> <<>>]

\* json.loads(text)
json_loads(text) == parse_literal(text, TRUE)

\* parse_js_array reading the span as JSON itself, without Node.js
parse_js_array_json_only(arr_str) ==
    LET v == json_loads(arr_str)
    IN  IF v.ok THEN [err |-> "", val |-> v.val]
        ELSE [err |-> "JSONDecodeError", val |-> PyNone]

\* parse_js_array giving no partners when Node.js fails
parse_js_array_swallow(arr_str) ==
    LET result == node_eval(arr_str)
        v      == json_loads(result.stdout)
    IN  IF result.returncode # 0 THEN [err |-> "", val |-> PyList(<<>>)]
        ELSE IF v.ok THEN [err |-> "", val |-> v.val]
        ELSE [err |-> "JSONDecodeError", val |-> PyNone]

\* Use Node.js to evaluate the JS object-literal array
parse_js_array(arr_str) ==
    LET result == node_eval(arr_str)
        v      == json_loads(result.stdout)
    IN  IF result.returncode # 0 THEN [err |-> "RuntimeError", val |-> PyNone]
        ELSE IF v.ok THEN [err |-> "", val |-> v.val]
        ELSE [err |-> "JSONDecodeError", val |-> PyNone]

(***************************************************************************)
(* tamkart.py: flatten_partner and the rest of main                        *)
(***************************************************************************)
TK_CSV_FIELDS ==
    <<"id", "name", "city", "category", "cashback", "taksits",
      "taksit_condition", "address", "map_lat", "map_lng", "parent_id">>

\* the keys flatten_partner looks up, as texts
TkKey ==
    [id |-> <<"i", "d">>,
     name |-> <<"n", "a", "m", "e">>,
     city |-> <<"c", "i", "t", "y">>,
     category |-> <<"c", "a", "t", "e", "g", "o", "r", "y">>,
     cashback |-> <<"c", "a", "s", "h", "b", "a", "c", "k">>,
     taksits |-> <<"t", "a", "k", "s", "i", "t", "s">>,
     taksit_condition |-> <<"t", "a", "k", "s", "i", "t", "_", "c", "o", "n", "d", "i", "t", "i", "o", "n">>,
     address |-> <<"a", "d", "d", "r", "e", "s", "s">>,
     map |-> <<"m", "a", "p">>,
     parent |-> <<"p", "a", "r", "e", "n", "t">>]

\* (p.get(key) or "").strip(): an AttributeError when the value is no text
strip_field(p, key) ==
    LET x == py_or(get(p, key), PyStr(<<>>))
    IN  IF x.t = "str" THEN [err |-> "", val |-> PyStr(strip(x.v))]
        ELSE [err |-> "AttributeError", val |-> PyNone]

\* Split 'lat, lng' map string into separate lat/lng strings
parse_coords(map_str) ==
    IF ~truthy(map_str) THEN [err |-> "", lat |-> <<>>, lng |-> <<>>]
    ELSE IF map_str.t # "str" THEN [err |-> "AttributeError", lat |-> <<>>, lng |-> <<>>]
    ELSE LET parts == split(strip(map_str.v), ",")
         IN  [err |-> "",
              lat |-> strip(parts[1]),
              lng |-> IF Len(parts) > 1 THEN strip(parts[2]) ELSE <<>>]

\* flatten_partner(p): the row, or the error raised on the way
tk_flatten_partner(p) ==
    IF p.t # "obj" THEN [err |-> "AttributeError", row |-> <<>>]
    ELSE LET co == parse_coords(get_or(p, TkKey.map, PyStr(<<>>)))
             sf == [c \in {"name", "city", "category", "address"} |->
                      strip_field(p, CASE c = "name" -> TkKey.name
                                       [] c = "city" -> TkKey.city
                                       [] c = "category" -> TkKey.category
                                       [] c = "address" -> TkKey.address)]
         IN  IF co.err # "" THEN [err |-> co.err, row |-> <<>>]
             ELSE IF \E c \in DOMAIN sf : sf[c].err # ""
             THEN [err |-> "AttributeError", row |-> <<>>]
             ELSE [err |-> "",
                   row |-> [id |-> get(p, TkKey.id),
                            name |-> sf["name"].val,
                            city |-> sf["city"].val,
                            category |-> sf["category"].val,
                            cashback |-> py_or(get(p, TkKey.cashback), PyStr(<<>>)),
                            taksits |-> py_or(get(p, TkKey.taksits), PyStr(<<>>)),
                            taksit_condition |->
                                py_or(get(p, TkKey.taksit_condition), PyStr(<<>>)),
                            address |-> sf["address"].val,
                            map_lat |-> PyStr(co.lat),
                            map_lng |-> PyStr(co.lng),
                            parent_id |-> get_or(p, TkKey.parent, PyStr(<<>>))]]

\* no file at OUTPUT_PATH
NoCsv == [written |-> FALSE, header |-> <<>>, rows |-> <<>>]

\* main: partners = parse_js_array(arr_str)
TkParse ==
    /\ tk_pc = "returned"
    /\ tk_caller = "main"
    /\ LET r == parse_js_array(tk_arr)
       IN  IF r.err # ""
           THEN tk_pc' = "raised" /\ tk_err' = r.err /\ tk_partners' = tk_partners
           ELSE tk_pc' = "parsed" /\ tk_err' = tk_err /\ tk_partners' = r.val.v
    /\ UNCHANGED <<tk_js, tk_start, tk_i, tk_depth, tk_in_str, tk_escape,
                   tk_str_char, tk_end, tk_arr, tk_csv, tk_caller, tk_rest>>

\* main: rows = [flatten_partner(p) for p in partners], then the CSV file
TkWrite ==
    /\ tk_pc = "parsed"
    /\ LET flat == [k \in 1..Len(tk_partners) |-> tk_flatten_partner(tk_partners[k])]
       IN  IF \E k \in 1..Len(flat) : flat[k].err # ""
           THEN tk_pc' = "raised" /\ tk_err' = "AttributeError" /\ tk_csv' = tk_csv
           ELSE /\ tk_pc' = "done" /\ tk_err' = tk_err
                /\ tk_csv' = [written |-> TRUE, header |-> TK_CSV_FIELDS,
                              rows |-> [k \in 1..Len(flat) |-> csv_row(flat[k].row)]]
    /\ UNCHANGED <<tk_js, tk_start, tk_i, tk_depth, tk_in_str, tk_escape,
                   tk_str_char, tk_end, tk_arr, tk_partners, tk_caller, tk_rest>>

TkNext ==
    \/ TkFindChunk
    \/ TkLocate
    \/ TkScanStep
    \/ TkScanEnd
    \/ TkParse
    \/ TkWrite

SpecTK == TkInit /\ [][TkNext]_vars

\* the text holds the marker
tk_marker_at(i) ==
    /\ i + Len(Marker) <= Len(tk_js)
    /\ \A k \in 1..Len(Marker) : tk_js[i + k] = Marker[k]

tk_has_marker == \E i \in 0..Len(tk_js) : tk_marker_at(i)

\* the offset of the opening bracket of the first occurrence of the marker
tk_first_bracket ==
    (CHOOSE i \in 0..Len(tk_js) :
        tk_marker_at(i) /\ \A j \in 0..(i - 1) : ~tk_marker_at(j))
    + (Len(Marker) - 1)

\* extract_js_array has got past the locating statements
tk_located == tk_pc \in {"scan", "returned", "parsed", "done"}
              \/ (tk_pc = "raised" /\ tk_err # "ValueError")

\* extract_js_array has returned
tk_returned == tk_located /\ tk_pc # "scan"

\* the position of the first bracket, quote or backslash at or after k
next_special(s, k) ==
    LET hits == {j \in k..Len(s) : s[j] \in Quotes \cup {"[", "]", "{", "}", "\\"}}
    IN  IF hits = {} THEN Len(s) + 1
        ELSE CHOOSE j \in hits : \A h \in hits : j <= h

\* the number of backslashes right before position j, inside the string
\* opened at position k
backslashes_before(s, k, j) ==
    LET others == {m \in k..(j - 1) : s[m] # "\\"}
    IN  j - 1 - (CHOOSE m \in others : \A o \in others : o <= m)

\* the position of the quote that closes the string opened at position k:
\* the first quote of the same style after an even number of backslashes;
\* 0 when the string is not closed
string_close(s, k) ==
    LET hits == {j \in (k + 1)..Len(s) :
                    s[j] = s[k] /\ backslashes_before(s, k, j) % 2 = 0}
    IN  IF hits = {} THEN 0
        ELSE CHOOSE j \in hits : \A h \in hits : j <= h

\* the matching bracket by the nesting of both kinds of bracket: the position
\* (1-based) at which the bracket opened at the start is closed, 0 when the
\* text is not a balanced literal; open holds the closers still expected
RECURSIVE ref_match(_, _, _)
ref_match(s, k, open) ==
    LET j == next_special(s, k)
    IN  IF j > Len(s) THEN 0
        ELSE CASE s[j] \in Quotes ->
                    IF string_close(s, j) = 0 THEN 0
                    ELSE ref_match(s, string_close(s, j) + 1, open)
               [] s[j] = "[" -> ref_match(s, j + 1, <<"]">> \o open)
               [] s[j] = "{" -> ref_match(s, j + 1, <<"}">> \o open)
               [] s[j] \in {"]", "}"} ->
                    IF open = <<>> \/ Head(open) # s[j] THEN 0
                    ELSE IF Len(open) = 1 THEN j
                    ELSE ref_match(s, j + 1, Tail(open))
               [] OTHER -> 0

\* C15: extract_js_array raises when the marker does not occur in the text,
\* the empty text included; when it occurs, scanning starts right after the
\* prefix "let s=" of the first occurrence, at the opening bracket.
C15_Locator ==
    tk_pc \in {"scan", "returned", "parsed", "done", "raised"} =>
        IF tk_has_marker
        THEN /\ tk_located
             /\ tk_start = tk_first_bracket
             /\ tk_js[tk_start + 1] = "["
        ELSE tk_pc = "raised" /\ tk_err = "ValueError"

C15_Witness ==
    tk_pc = "raised" /\ tk_err = "ValueError" /\ tk_js = <<>> /\ tk_caller = "direct"

\* C12: when the marker is followed by a balanced literal of nested arrays and
\* objects with strings in any quote style, extract_js_array returns the text
\* from the opening bracket through its matching closing bracket, and no
\* character read inside a string changes the depth.
C12_ScannerBalance ==
    /\ [](tk_returned =>
            LET e == ref_match(tk_js, tk_start + 1, <<>>)
            IN  e > 0 => tk_arr = SubSeq(tk_js, tk_start + 1, e))
    /\ [][tk_pc = "scan" /\ tk_in_str => tk_depth' = tk_depth]_vars

C12_Witness ==
    /\ tk_pc = "returned" /\ tk_caller = "direct"
    /\ tk_arr = LitNested
    /\ Len(tk_js) > tk_end

\* C13: when the text ends before the depth is back at zero (outside any
\* string), extract_js_array raises instead of returning.
C13_UnterminatedLiteralRaises ==
    (tk_i >= Len(tk_js) /\ tk_depth > 0 /\ ~tk_in_str) => tk_pc # "returned"

\* C14: when the text ends inside a string, extract_js_array raises instead of
\* returning.
C14_UnterminatedStringRaises ==
    (tk_i >= Len(tk_js) /\ tk_in_str) => tk_pc # "returned"

\* the balanced literal after the first occurrence of the marker (empty when
\* there is none)
tk_literal ==
    LET e == ref_match(tk_js, tk_first_bracket + 1, <<>>)
    IN  IF e = 0 THEN <<>> ELSE SubSeq(tk_js, tk_first_bracket + 1, e)

\* locating the marker, scanning the literal or parsing it fails
tk_fails ==
    \/ ~tk_has_marker
    \/ tk_literal = <<>>
    \/ ~parse_literal(tk_literal, FALSE).ok

\* C18: in tamkart's main, whenever locating the marker, scanning the literal
\* or parsing it fails, the run ends with an error and no CSV file is written;
\* a run that ends in success has written the records of the complete literal,
\* never those of an empty or truncated one.
C18_FailureSurfaced ==
    tk_caller = "main" =>
        /\ tk_csv.written => tk_pc = "done"
        /\ (tk_fails /\ tk_pc \in {"done", "raised", "exit"}) =>
              tk_pc # "done" /\ tk_err # "" /\ ~tk_csv.written
        /\ tk_pc = "done" =>
              /\ ~tk_fails
              /\ tk_arr = tk_literal
              /\ tk_csv.written
              /\ Len(tk_csv.rows) = Len(parse_literal(tk_literal, FALSE).val.v)

C18_Witness ==
    /\ tk_caller = "main" /\ tk_pc = "raised" /\ tk_err = "RuntimeError"
    /\ tk_has_marker /\ tk_arr = <<>> /\ tk_depth > 0
    /\ ~tk_csv.written

(***************************************************************************)
(* tamkart.parse_js_array on one value written in two ways                 *)
(***************************************************************************)
\* the text of a string in quote style q
RECURSIVE quote_escape(_, _)
quote_escape(chars, q) ==
    IF chars = <<>> THEN <<>>
    ELSE (IF Head(chars) \in {q, "\\"} THEN <<"\\", Head(chars)>>
          ELSE <<Head(chars)>>) \o quote_escape(Tail(chars), q)

quoted(chars, q) == <<q>> \o quote_escape(chars, q) \o <<q>>

\* a value written as a literal; the style gives the quote of the strings,
\* whether keys are bare identifiers, and whether a comma precedes a closing
\* bracket (a quoted key is single- or double-quoted)
RECURSIVE serialize(_, _)
serialize(x, st) ==
    CASE x.t = "none" -> <<"n", "u", "l", "l">>
      [] x.t = "num"  -> x.v
      [] x.t = "str"  -> quoted(x.v, st.quote)
      [] x.t = "list" ->
            <<"[">> \o join(<<",">>, [k \in 1..Len(x.v) |-> serialize(x.v[k], st)])
            \o (IF st.trailing /\ x.v # <<>> THEN <<",">> ELSE <<>>) \o <<"]">>
      [] x.t = "obj"  ->
            LET ks == keys_seq(DOMAIN x.v)
                kq == IF st.quote = BackQuote THEN "\"" ELSE st.quote
            IN  <<"{">>
                \o join(<<",">>, [k \in 1..Len(ks) |->
                       (IF st.bare THEN ks[k] ELSE quoted(ks[k], kq))
                       \o <<":">> \o serialize(x.v[ks[k]], st)])
                \o (IF st.trailing /\ ks # <<>> THEN <<",">> ELSE <<>>) \o <<"}">>

StrictStyle == [quote |-> "\"", bare |-> FALSE, trailing |-> FALSE]

PjStyles == [quote : Quotes, bare : BOOLEAN, trailing : BOOLEAN]

PjScalars ==
    { PyStr(<<"a">>), PyStr(<<"'", "]">>), PyStr(<<BackQuote, "\"">>),
      PyNum(<<"1", "2">>), PyNone }

\* one-element arrays and one-member objects of a scalar, an object of
\* scalars or an array of at most MaxItems scalars
PjTrees ==
    LET keys    == {<<"a">>, <<"b", "_">>}
        objects == {PyObj([k \in ks |-> f[k]]) :
                       ks \in SUBSET keys, f \in [keys -> PjScalars]}
        arrays  == {PyList(l) : l \in UNION {[1..n -> PjScalars] : n \in 0..MaxItems}}
        inner   == PjScalars \cup objects \cup arrays
    IN  {PyList(<<x>>) : x \in inner}
        \cup {PyObj([k \in {<<"a">>} |-> x]) : x \in inner}

PjInit ==
    /\ \E x \in PjTrees, st \in PjStyles :
          /\ pj_loose = serialize(x, st)
          /\ pj_strict = serialize(x, StrictStyle)
    /\ pj_pc = "start"
    /\ pj_out_loose = <<>> /\ pj_out_strict = <<>>
    /\ PjRestIdle

\* parse_js_array(loose text)
PjParseLoose ==
    /\ pj_pc \in {"start", "strict"}
    /\ pj_out_loose' = parse_js_array(pj_loose)
    /\ pj_pc' = IF pj_pc = "start" THEN "loose" ELSE "both"
    /\ UNCHANGED <<pj_loose, pj_strict, pj_out_strict, pj_rest>>

\* parse_js_array(strict text)
PjParseStrict ==
    /\ pj_pc \in {"start", "loose"}
    /\ pj_out_strict' = parse_js_array(pj_strict)
    /\ pj_pc' = IF pj_pc = "start" THEN "strict" ELSE "both"
    /\ UNCHANGED <<pj_loose, pj_strict, pj_out_loose, pj_rest>>

PjNext == PjParseLoose \/ PjParseStrict

SpecPJ == PjInit /\ [][PjNext]_vars

\* C20: a literal with unquoted identifier keys, single- or back-quoted
\* strings, or a trailing comma before a closing bracket parses successfully
\* and gives the same value tree as the equivalent literal with quoted keys,
\* double-quoted strings and no trailing comma.
C20_Permissive ==
    /\ pj_pc \in {"loose", "both"} => pj_out_loose.err = ""
    /\ pj_pc \in {"strict", "both"} => pj_out_strict.err = ""
    /\ pj_pc = "both" => pj_out_loose.val = pj_out_strict.val

C20_Witness ==
    /\ pj_pc = "both"
    /\ pj_loose = <<"[", "{", "a", ":", "'", "\\", "'", "]", "'", ",", "}", ",", "]">>
    /\ pj_strict = <<"[", "{", "\"", "a", "\"", ":", "\"", "'", "]", "\"", "}", "]">>
    /\ pj_out_loose.val = PyList(<<PyObj([k \in {<<"a">>} |-> PyStr(<<"'", "]">>)])>>)

(***************************************************************************)
(* extract_js_array: the loop, step by step                                *)
(***************************************************************************)
\* the loop is about to read the character at offset tk_i
tk_reading == tk_pc = "scan" /\ tk_i < Len(tk_js)

\* the character it reads
tk_ch == tk_js[tk_i + 1]

\* that character is read outside strings and escapes
tk_plain == tk_reading /\ ~tk_escape /\ tk_in_str = FALSE /\ tk_ch # "\\"

\* C21 (as stated): outside a string the depth goes up on both [ and { and
\* down on both ] and }.
C21_BothKindsCounted ==
    [][/\ (tk_plain /\ tk_ch \in {"[", "{"}) => tk_depth' = tk_depth + 1
       /\ (tk_plain /\ tk_ch \in {"]", "}"}) => tk_depth' = tk_depth - 1]_vars

\* C21 (amended): outside a string the depth goes up on [ and down on ] and
\* on no other character, braces included; the span returned by the break ends
\* where every [ opened since the start has been closed.
C21_SquareOnly ==
    /\ [][/\ (tk_plain /\ tk_ch = "[") => tk_depth' = tk_depth + 1
          /\ (tk_plain /\ tk_ch = "]") => tk_depth' = tk_depth - 1
          /\ (tk_reading /\ ~(tk_plain /\ tk_ch \in {"[", "]"})) =>
                tk_depth' = tk_depth]_vars
    /\ []((tk_returned /\ tk_arr # <<>>) =>
            tk_depth = 0 /\ tk_arr[Len(tk_arr)] = "]" /\ tk_arr[1] = "[")

C21_Witness ==
    tk_pc = "returned" /\ tk_arr = <<"[", "{", "]">>

\* the loop and the return of extract_js_array as one function: the span for
\* text js when the loop is at offset i in state st
RECURSIVE scan_from(_, _, _, _)
scan_from(js, start, i, st) ==
    IF i >= Len(js) THEN <<>>
    ELSE IF scan_step(st, js[i + 1]).brk THEN slice(js, start, i + 1)
    ELSE scan_from(js, start, i + 1, scan_step(st, js[i + 1]))

\* texts put in the place of what follows the returned span
TkSuffixes ==
    TextsUpTo(ScanAlphabet, 1)
    \cup {<<"]", "]">>, <<"[", "]">>, <<"\\", "]">>, <<"\"", "]", "\"">>}

\* C22: the scanner halts at the first position at which the depth returns to
\* zero: that step returns with end one past the closing bracket, no character
\* after it is read, and whatever text follows that position gives the same
\* span.
C22_HaltsAtFirstZero ==
    /\ [][(tk_reading /\ tk_depth' = 0) =>
             /\ tk_pc' = "returned"
             /\ tk_end' = tk_i + 1
             /\ tk_arr' = slice(tk_js, tk_start, tk_i + 1)]_vars
    /\ [](tk_pc = "scan" => tk_depth > 0 \/ tk_i = tk_start)
    /\ []((tk_returned /\ tk_arr # <<>>) =>
            /\ tk_end = tk_i + 1
            /\ tk_js[tk_end] = "]"
            /\ \A x \in TkSuffixes :
                  scan_from(slice(tk_js, 0, tk_end) \o x, tk_start, tk_start,
                            [depth |-> 0, in_str |-> FALSE, escape |-> FALSE,
                             str_char |-> "", brk |-> FALSE]) = tk_arr)

C22_Witness ==
    /\ tk_pc = "returned" /\ tk_caller = "direct"
    /\ tk_arr = <<"[", "]">>
    /\ slice(tk_js, tk_end, Len(tk_js)) = <<"]">>

\* C23: a backslash escapes exactly the one character after it: the step that
\* reads a backslash sets the flag and changes nothing else, and the step
\* after it clears the flag and leaves the depth and the string state as they
\* were, whatever the escaped character is.
C23_EscapeOneChar ==
    [][/\ (tk_reading /\ ~tk_escape /\ tk_ch = "\\") =>
             /\ tk_escape' = TRUE
             /\ tk_pc' = "scan"
             /\ <<tk_depth, tk_in_str, tk_str_char>>' = <<tk_depth, tk_in_str, tk_str_char>>
       /\ (tk_reading /\ tk_escape) =>
             /\ tk_escape' = FALSE
             /\ tk_pc' = "scan"
             /\ <<tk_depth, tk_in_str, tk_str_char>>' = <<tk_depth, tk_in_str, tk_str_char>>
       /\ (tk_reading /\ ~tk_escape /\ tk_in_str = TRUE /\ tk_ch = tk_str_char) =>
             tk_in_str' = FALSE]_vars

\* an escaped closing quote was passed inside a string, which is still open
C23_Witness ==
    /\ tk_pc = "scan" /\ tk_i >= 3 /\ ~tk_escape /\ tk_in_str = TRUE
    /\ tk_js[tk_i] = tk_str_char
    /\ tk_js[tk_i - 1] = "\\"
    /\ tk_js[tk_i - 2] # "\\"

(***************************************************************************)
(* birbank._join_strapi_list                                               *)
(*   the result is [err, val]: err names the exception that leaves the     *)
(*   call, val is the returned text                                        *)
(***************************************************************************)
MaxRelation == 2

\* the for loop: the parts appended for the elements of data, in order
RECURSIVE strapi_parts_keep_falsy(_, _)
strapi_parts_keep_falsy(data, key) ==
    IF data = <<>> THEN <<>>
    ELSE LET item == Head(data)
             val == get(get_or(item, "attributes", item), key)
         IN  (IF item.t = "obj" /\ val.t # "none"
              THEN <<strip(py_str(val))>> ELSE <<>>)
             \o strapi_parts_keep_falsy(Tail(data), key)

RECURSIVE strapi_parts(_, _)
strapi_parts(data, key) ==
    IF data = <<>> THEN <<>>
    ELSE LET item == Head(data)
             val == get(get_or(item, "attributes", item), key)
         IN  (IF item.t = "obj" /\ truthy(val)
              THEN <<strip(py_str(val))>> ELSE <<>>)
             \o strapi_parts(Tail(data), key)

\* Extract a semicolon-joined list from a Strapi {data:[{attributes:{key:...}}]} structure
_join_strapi_list(obj, key) ==
    IF ~truthy(obj) THEN [err |-> "", val |-> <<>>]
    ELSE LET data == IF obj.t = "obj" THEN get_or(obj, "data", PyList(<<>>)) ELSE obj
         IN  IF data.t # "list" THEN [err |-> "", val |-> <<>>]
             ELSE IF \E k \in 1..Len(data.v) :
                        /\ data.v[k].t = "obj"
                        /\ get_or(data.v[k], "attributes", data.v[k]).t # "obj"
                  THEN [err |-> "AttributeError", val |-> <<>>]
                  ELSE [err |-> "", val |-> join(<<";", " ">>, strapi_parts(data.v, key))]

\* the relations a partner's attributes hold under one key
JsRelations ==
    LET values == {PyNone, PyStr(<<>>), PyStr(<<"a">>), PyStr(<<" ", "b", " ">>),
                   PyInt(0), PyInt(3)}
        items  == {PyObj([attributes |-> PyObj([name |-> v])]) : v \in values}
                  \cup {PyObj([name |-> v]) : v \in values}
                  \cup {EmptyObj, PyObj([attributes |-> EmptyObj]),
                        PyObj([attributes |-> PyNone]),
                        PyNone, PyStr(<<"x">>), PyInt(1)}
        lists  == UNION {[1..n -> items] : n \in 0..MaxRelation}
    IN  {PyNone, EmptyObj, PyStr(<<"x">>), PyInt(1),
         PyObj([data |-> PyNone]), PyObj([data |-> PyStr(<<"x">>)]),
         PyObj([meta |-> PyNone])}
        \cup {PyObj([data |-> PyList(l)]) : l \in lists}
        \cup {PyList(l) : l \in lists}

JsInit ==
    /\ js_pc = "call" /\ js_obj \in JsRelations /\ js_key = "name"
    /\ js_out = <<>>
    /\ JsRestIdle

JsCall ==
    /\ js_pc = "call"
    /\ js_out' = _join_strapi_list(js_obj, js_key)
    /\ js_pc' = "done"
    /\ UNCHANGED <<js_obj, js_key, js_rest>>

JsNext == JsCall

SpecJS == JsInit /\ [][JsNext]_vars

\* the relation list of js_obj, when it has one
js_data ==
    IF js_obj.t = "obj" THEN get_or(js_obj, "data", PyList(<<>>)) ELSE js_obj

js_has_list == truthy(js_obj) /\ js_data.t = "list"

\* the value element k holds under the key: in its attributes, or in the
\* element itself when it has no attributes
js_value(k) == get(get_or(js_data.v[k], "attributes", js_data.v[k]), js_key)

js_is_obj(k) == js_data.v[k].t = "obj"

\* an object element whose attributes are not an object
js_broken ==
    js_has_list /\ \E k \in 1..Len(js_data.v) :
        js_is_obj(k) /\ get_or(js_data.v[k], "attributes", js_data.v[k]).t # "obj"

\* the entries of the elements with index in S, in index order
RECURSIVE js_entries(_)
js_entries(S) ==
    IF S = {} THEN <<>>
    ELSE LET k == CHOOSE x \in S : \A y \in S : x <= y
         IN  <<strip(py_str(js_value(k)))>> \o js_entries(S \ {k})

js_done == js_pc = "done"

\* C24 as stated: one entry for every element that has a value under the key.
C24_EntryPerValue ==
    (js_done /\ js_has_list /\ ~js_broken) =>
        /\ js_out.err = ""
        /\ js_out.val =
             join(<<";", " ">>,
                  js_entries({k \in 1..Len(js_data.v) :
                                js_is_obj(k) /\ js_value(k).t # "none"}))

\* C24, amended: the result joins with "; " the stripped text of the values
\* that are truthy, one entry per object element holding one, in list order;
\* a value that is null, zero or the empty text gives no entry; the result is
\* empty when the relation is missing, null, empty or not a list; elements
\* that are not objects are passed over, and the call raises only for an
\* object element whose attributes are not an object.
C24_EntryPerTruthyValue ==
    js_done =>
        /\ (~js_has_list) => js_out = [err |-> "", val |-> <<>>]
        /\ js_broken => js_out.err = "AttributeError"
        /\ (js_has_list /\ ~js_broken) =>
              /\ js_out.err = ""
              /\ js_out.val =
                   join(<<";", " ">>,
                        js_entries({k \in 1..Len(js_data.v) :
                                      js_is_obj(k) /\ truthy(js_value(k))}))
        /\ (js_has_list /\ \A k \in 1..Len(js_data.v) : ~js_is_obj(k)) =>
              js_out = [err |-> "", val |-> <<>>]

\* a list of a non-object and an object with a padded value, flattened
C24_Witness ==
    /\ js_done
    /\ js_obj = PyObj([data |-> PyList(<<PyStr(<<"x">>),
                          PyObj([attributes |-> PyObj([name |-> PyStr(<<" ", "b", " ">>)])])>>)])
    /\ js_out = [err |-> "", val |-> <<"b">>]

(***************************************************************************)
(* unibank.main                                                            *)
(*   A site is the pages it serves: real[n] for page n, and one fixed      *)
(*   answer, tail, for every page number after the last real one.  A page  *)
(*   is its partner blocks; a block is the row parse_block reads from it,  *)
(*   with id "" when the block has no data-partner attribute.  The name    *)
(*   of a block tells where in the site it stands.                         *)
(***************************************************************************)
MaxSiteRows == 4
MaxExtraPages == 3

UbIds == {"1", "2"}

\* the pages of n blocks standing at page number k
UbPages(k, n) ==
    {[j \in 1..n |-> [id |-> ids[j], name |-> <<k, j>>]] :
        ids \in [1..n -> UbIds \cup {""}]}

\* the lists of real pages, numbered from k on, that hold at most n blocks
RECURSIVE UbReal(_, _)
UbReal(k, n) ==
    {<<>>} \cup
    UNION {{<<p>> \o s : p \in UbPages(k, m), s \in UbReal(k + 1, n - m)} :
              m \in 1..n}

\* after its last real page a site answers with nothing or with one of its
\* real pages
UbSites ==
    UNION {{[real |-> r, tail |-> t] : t \in {<<>>} \cup {r[k] : k \in 1..Len(r)}} :
              r \in UbReal(1, MaxSiteRows)}

\* fetch_html(page): the blocks of the page the site answers with
fetch_html(site, page) ==
    IF page <= Len(site.real) THEN site.real[page] ELSE site.tail

\* Extract all desktop partner blocks from a page's HTML
parse_page(blocks) == SelectSeq(blocks, LAMBDA b : b.id # "")

\* line 141: the test "first_id is the id of all_rows[-len(rows)]"
duplicate_content(all, rows) ==
    IF Len(all) >= Len(rows)
    THEN Len(all) > 0 /\ rows[1].id = all[Len(all) - Len(rows) + 1].id
    ELSE FALSE

\* Deduplicate by partner ID (keep first occurrence)
RECURSIVE unique_rows_keep_last(_, _)
unique_rows_keep_last(rows, seen_ids) ==
    IF rows = <<>> THEN <<>>
    ELSE IF \E k \in 2..Len(rows) : rows[k].id = Head(rows).id
         THEN unique_rows_keep_last(Tail(rows), seen_ids)
         ELSE <<Head(rows)>> \o unique_rows_keep_last(Tail(rows), seen_ids)

RECURSIVE unique_rows(_, _)
unique_rows(rows, seen_ids) ==
    IF rows = <<>> THEN <<>>
    ELSE IF Head(rows).id \in seen_ids THEN unique_rows(Tail(rows), seen_ids)
    ELSE <<Head(rows)>> \o unique_rows(Tail(rows), seen_ids \cup {Head(rows).id})

UbInit ==
    /\ ub_site \in UbSites
    /\ ub_pc = "fetch" /\ ub_page = 1 /\ ub_all_rows = <<>>
    /\ ub_seen_first_id = PyNone /\ ub_accepted = <<>> /\ ub_csv = NoCsv
    /\ UbRestIdle

\* one iteration of the while loop in which the page is accepted
UbAccept ==
    /\ ub_pc = "fetch" /\ ub_page <= Len(ub_site.real) + MaxExtraPages
    /\ LET rows == parse_page(fetch_html(ub_site, ub_page))
       IN  /\ rows # <<>>
           /\ ~(ub_seen_first_id # PyNone /\ PyStr(rows[1].id) = ub_seen_first_id)
           /\ ~duplicate_content(ub_all_rows, rows)
           /\ ub_seen_first_id' = IF ub_page = 1 THEN PyStr(rows[1].id)
                                  ELSE ub_seen_first_id
           /\ ub_all_rows' = ub_all_rows \o rows
           /\ ub_accepted' = Append(ub_accepted, rows)
           /\ ub_page' = ub_page + 1
    /\ UNCHANGED <<ub_site, ub_pc, ub_csv, ub_rest>>

\* one iteration of the while loop that ends in one of the three breaks
UbStop ==
    /\ ub_pc = "fetch" /\ ub_page <= Len(ub_site.real) + MaxExtraPages
    /\ LET rows == parse_page(fetch_html(ub_site, ub_page))
       IN  \/ rows = <<>>
           \/ /\ rows # <<>>
              /\ \/ ub_seen_first_id # PyNone /\ PyStr(rows[1].id) = ub_seen_first_id
                 \/ duplicate_content(ub_all_rows, rows)
    /\ ub_pc' = "dedup"
    /\ UNCHANGED <<ub_site, ub_page, ub_all_rows, ub_seen_first_id, ub_accepted,
                   ub_csv, ub_rest>>

\* fetch_html raises (urlopen): the exception leaves main, nothing is written
UbFetchRaises ==
    /\ ub_pc = "fetch" /\ ub_page <= Len(ub_site.real) + MaxExtraPages
    /\ ub_pc' = "raised"
    /\ UNCHANGED <<ub_site, ub_page, ub_all_rows, ub_seen_first_id, ub_accepted,
                   ub_csv, ub_rest>>

\* lines 150-162: deduplicate and write the CSV
UbWrite ==
    /\ ub_pc = "dedup"
    /\ ub_csv' = [written |-> TRUE, header |-> <<"id", "name">>,
                  rows |-> unique_rows(ub_all_rows, {})]
    /\ ub_pc' = "done"
    /\ UNCHANGED <<ub_site, ub_page, ub_all_rows, ub_seen_first_id, ub_accepted,
                   ub_rest>>

UbNext == UbAccept \/ UbStop \/ UbFetchRaises \/ UbWrite

SpecUB == UbInit /\ [][UbNext]_vars

\* the first partner IDs of the accepted pages, in the order of acceptance
ub_first_ids == [k \in 1..Len(ub_accepted) |-> ub_accepted[k][1].id]

\* C25: pagination stops at the first fetched page whose first partner ID was
\* the first ID of an earlier accepted page, so no two accepted pages begin
\* with the same ID.
C25_StopsAtSeenFirstId ==
    \A i, j \in 1..Len(ub_accepted) : i < j => ub_first_ids[i] # ub_first_ids[j]

\* the rows of the accepted pages, in the order they were fetched
RECURSIVE ub_flat(_)
ub_flat(pages) == IF pages = <<>> THEN <<>> ELSE Head(pages) \o ub_flat(Tail(pages))

\* the place of the first row with the given id
ub_first_at(rows, id) ==
    CHOOSE k \in 1..Len(rows) :
        rows[k].id = id /\ \A m \in 1..(k - 1) : rows[m].id # id

\* C26: the rows written by the unibank scraper have pairwise distinct IDs
\* and are the first occurrences, in their original order, of the IDs of the
\* accepted pages: each such ID is written once, with the fields of its first
\* occurrence.
C26_FirstOccurrences ==
    ub_pc = "done" =>
        LET seen == ub_flat(ub_accepted)
            rows == ub_csv.rows
        IN  /\ ub_csv.written
            /\ \A i, j \in 1..Len(rows) : i # j => rows[i].id # rows[j].id
            /\ {rows[k].id : k \in 1..Len(rows)} = {seen[k].id : k \in 1..Len(seen)}
            /\ \A k \in 1..Len(rows) : rows[k] = seen[ub_first_at(seen, rows[k].id)]
            /\ \A i, j \in 1..Len(rows) :
                  i < j => ub_first_at(seen, rows[i].id) < ub_first_at(seen, rows[j].id)

\* two accepted pages that share an ID, written
C26_Witness ==
    /\ ub_pc = "done" /\ Len(ub_accepted) = 2
    /\ Len(ub_csv.rows) = 2 /\ Len(ub_all_rows) = 3
    /\ \E k \in 1..Len(ub_accepted[2]) : ub_accepted[2][k].id = ub_accepted[1][1].id

(***************************************************************************)
(* rabitabank.main                                                         *)
(*   A site is the partner lists of its pages and the answer, last, it     *)
(*   gives for every later page number: an empty list or null.  Any call   *)
(*   of fetch_page may raise.                                              *)
(***************************************************************************)
MaxRbPages == 2

RbPartnerLists ==
    LET p1 == PyObj([id |-> PyInt(1), title |-> PyStr(<<" ", "a">>)])
        p2 == PyObj([id |-> PyInt(2)])
    IN  {<<p1>>, <<p2>>, <<p1, p2>>}

RbSites ==
    {[pages |-> ps, last |-> l] :
        ps \in UNION {[1..n -> RbPartnerLists] : n \in 0..MaxRbPages},
        l \in {PyList(<<>>), PyNone}}

\* what a call of fetch_page that does not raise returns: data.get("partners", [])
rb_fetch_page(site, page) ==
    IF page <= Len(site.pages) THEN PyList(site.pages[page]) ELSE site.last

rb_flatten_partner(p, page) ==
    [id           |-> get(p, "id"),
     title        |-> strip(py_or(get(p, "title"), PyStr(<<>>)).v),
     page_scraped |-> page]

\* for p in partners: all_rows.append(flatten_partner(p, page))
rb_page_rows(partners, page) ==
    [k \in 1..Len(partners) |-> rb_flatten_partner(partners[k], page)]

\* range(3): the attempts made for one page
RbAttempts == 3

RbInit ==
    /\ rb_site \in RbSites
    /\ rb_pc = "attempt" /\ rb_page = 1 /\ rb_attempt = 0
    /\ rb_all_rows = <<>> /\ rb_requests = <<>> /\ rb_csv = NoCsv
    /\ RbRestIdle

\* an attempt that returns a page with partners: the rows are added and the
\* loop goes on to the next page
RbFetchPartners ==
    /\ rb_pc = "attempt"
    /\ LET partners == rb_fetch_page(rb_site, rb_page)
       IN  /\ partners # PyNone /\ truthy(partners)
           /\ rb_all_rows' = rb_all_rows \o rb_page_rows(partners.v, rb_page)
    /\ rb_requests' = Append(rb_requests, [page |-> rb_page, ok |-> TRUE])
    /\ rb_page' = rb_page + 1
    /\ rb_attempt' = 0
    /\ UNCHANGED <<rb_site, rb_pc, rb_csv, rb_rest>>

RbFetchEmpty_goes_on ==
    /\ rb_pc = "attempt"
    /\ ~truthy(rb_fetch_page(rb_site, rb_page))
    /\ rb_requests' = Append(rb_requests, [page |-> rb_page, ok |-> TRUE])
    /\ rb_page' = rb_page + 1
    /\ rb_attempt' = 0
    /\ UNCHANGED <<rb_site, rb_pc, rb_all_rows, rb_csv, rb_rest>>

\* an attempt that returns an empty list or None: break
RbFetchEmpty ==
    /\ rb_pc = "attempt"
    /\ ~truthy(rb_fetch_page(rb_site, rb_page))
    /\ rb_requests' = Append(rb_requests, [page |-> rb_page, ok |-> TRUE])
    /\ rb_pc' = "write"
    /\ UNCHANGED <<rb_site, rb_page, rb_attempt, rb_all_rows, rb_csv, rb_rest>>

\* an attempt that raises: retry, or after the last attempt partners = None
\* and break
RbFetchRaises_four_attempts ==
    /\ rb_pc = "attempt"
    /\ rb_requests' = Append(rb_requests, [page |-> rb_page, ok |-> FALSE])
    /\ IF rb_attempt < RbAttempts
       THEN rb_attempt' = rb_attempt + 1 /\ rb_pc' = rb_pc
       ELSE rb_attempt' = rb_attempt /\ rb_pc' = "write"
    /\ UNCHANGED <<rb_site, rb_page, rb_all_rows, rb_csv, rb_rest>>

RbFetchRaises ==
    /\ rb_pc = "attempt"
    /\ rb_requests' = Append(rb_requests, [page |-> rb_page, ok |-> FALSE])
    /\ IF rb_attempt < RbAttempts - 1
       THEN rb_attempt' = rb_attempt + 1 /\ rb_pc' = rb_pc
       ELSE rb_attempt' = rb_attempt /\ rb_pc' = "write"
    /\ UNCHANGED <<rb_site, rb_page, rb_all_rows, rb_csv, rb_rest>>

\* lines 137-140: write the CSV
RbWrite ==
    /\ rb_pc = "write"
    /\ rb_csv' = [written |-> TRUE, header |-> <<"id", "title", "page_scraped">>,
                  rows |-> rb_all_rows]
    /\ rb_pc' = "done"
    /\ UNCHANGED <<rb_site, rb_page, rb_attempt, rb_all_rows, rb_requests, rb_rest>>

RbNext == RbFetchPartners \/ RbFetchEmpty \/ RbFetchRaises \/ RbWrite

SpecRB == RbInit /\ [][RbNext]_vars

\* the rows of pages 1..n of the site, page after page
RECURSIVE rb_rows_upto(_)
rb_rows_upto(n) ==
    IF n = 0 THEN <<>>
    ELSE rb_rows_upto(n - 1) \o rb_page_rows(rb_site.pages[n], n)

rb_n == Len(rb_requests)

\* the call of fetch_page that returned a page without partners
rb_empty_at(k) == rb_requests[k].ok /\ rb_requests[k].page > Len(rb_site.pages)

\* C27: pages are requested in increasing order from 1 on, never skipping
\* one; the first page returned without partners is the last request; the
\* output then holds the partners of every page before it, in page order,
\* each once.
C27_StopsAtEmptyPage ==
    /\ rb_n > 0 => rb_requests[1].page = 1
    /\ \A k \in 1..(rb_n - 1) :
          /\ rb_requests[k + 1].page \in {rb_requests[k].page, rb_requests[k].page + 1}
          /\ rb_requests[k + 1].page = rb_requests[k].page + 1 <=> rb_requests[k].ok
    /\ \A k \in 1..rb_n : rb_empty_at(k) => k = rb_n /\ rb_pc # "attempt"
    /\ (rb_pc = "done" /\ rb_empty_at(rb_n)) =>
          /\ rb_csv.written
          /\ rb_requests[rb_n].page = Len(rb_site.pages) + 1
          /\ rb_csv.rows = rb_rows_upto(Len(rb_site.pages))

\* two pages, then the empty page, with one failed attempt on the way
C27_Witness ==
    /\ rb_pc = "done" /\ Len(rb_site.pages) = 2 /\ rb_empty_at(rb_n)
    /\ rb_n = 4 /\ Len(rb_csv.rows) = 3

\* the calls of fetch_page made for page p
rb_calls(p) == {k \in 1..rb_n : rb_requests[k].page = p}

rb_gave_up(p) ==
    Cardinality({k \in rb_calls(p) : ~rb_requests[k].ok}) = RbAttempts

\* C28: a page is requested at most 3 times, and again only after the
\* attempt before failed; when all 3 attempts of a page fail no later page is
\* requested and the rows of the pages before it are written.
C28_ThreeAttempts ==
    /\ \A p \in 1..(Len(rb_site.pages) + 1) : Cardinality(rb_calls(p)) <= RbAttempts
    /\ \A k \in 1..(rb_n - 1) :
          rb_requests[k + 1].page = rb_requests[k].page => ~rb_requests[k].ok
    /\ \A p \in 1..(Len(rb_site.pages) + 1) :
          rb_gave_up(p) =>
              /\ \A k \in 1..rb_n : rb_requests[k].page <= p
              /\ rb_pc \in {"write", "done"}
              /\ rb_pc = "done" =>
                    rb_csv.written /\ rb_csv.rows = rb_rows_upto(p - 1)

\* page 1 was taken, page 2 failed three times, the rows of page 1 are written
C28_Witness ==
    /\ rb_pc = "done" /\ rb_gave_up(2) /\ rb_csv.written
    /\ rb_csv.rows = rb_rows_upto(1) /\ rb_csv.rows # <<>>
    /\ Len(rb_site.pages) = 2

(***************************************************************************)
(* bolkart.main and birbank.main                                           *)
(*   The two scrapers differ in how the first response gives the number    *)
(*   of pages.  A site is the partner lists of its pages; a partner is an  *)
(*   object, or null, on which flatten_partner raises AttributeError.      *)
(*   Any call of fetch_page may raise.                                     *)
(***************************************************************************)
MaxPgPages == 3

PAGE_SIZE == 100

\* range(2): the attempts made for each page after the first
PgAttempts == 2

\* the partner lists of page k
PgPartnerLists(k) ==
    LET p(j) == PyObj([id |-> PyInt(10 * k + j)])
    IN  {<<>>, <<p(1)>>, <<PyNone>>, <<p(1), PyNone>>, <<p(1), p(2)>>}

PgSites ==
    UNION {{s \in [1..n -> UNION {PgPartnerLists(k) : k \in 1..n}] :
               \A k \in 1..n : s[k] \in PgPartnerLists(k)} : n \in 1..MaxPgPages}

\* the response of fetch_page(page) when it does not raise
pg_fetch_page(site, page) ==
    [data          |-> site[page],
     totalElements |-> (Len(site) - 1) * PAGE_SIZE + 1,
     pageCount     |-> Len(site)]

\* math.ceil(total / PAGE_SIZE) in bolkart, pagination["pageCount"] in birbank
pg_total(scraper, first) ==
    IF scraper = "bolkart"
    THEN (first.totalElements + PAGE_SIZE - 1) \div PAGE_SIZE
    ELSE first.pageCount

\* flatten_partner: the id column of the row
pg_flatten_partner(p) ==
    IF p.t = "obj" THEN [err |-> "", row |-> [id |-> get(p, "id")]]
    ELSE [err |-> "AttributeError", row |-> <<>>]

\* for p in items: all_rows.append(flatten_partner(p)): the rows appended
\* before the loop ends or flatten_partner raises
RECURSIVE pg_append(_)
pg_append(items) ==
    IF items = <<>> THEN [err |-> "", rows |-> <<>>]
    ELSE LET f == pg_flatten_partner(Head(items))
             r == pg_append(Tail(items))
         IN  IF f.err # "" THEN [err |-> f.err, rows |-> <<>>]
             ELSE [err |-> r.err, rows |-> <<f.row>> \o r.rows]

PgInit ==
    /\ pg_scraper \in {"bolkart", "birbank"}
    /\ pg_site \in PgSites
    /\ pg_pc = "first" /\ pg_page = 1 /\ pg_attempt = 0 /\ pg_total_pages = 0
    /\ pg_all_rows = <<>> /\ pg_requests = <<>> /\ pg_csv = NoCsv
    /\ PgRestIdle

\* the loop moves on to the next page, or to the write after the last one
PgNextPage ==
    /\ pg_page' = pg_page + 1
    /\ pg_attempt' = 0
    /\ pg_pc' = IF pg_page + 1 <= pg_total_pages' THEN "attempt" ELSE "write"

\* the except branch: retry after the first failure, skip after the second
PgFailed_stops ==
    IF pg_attempt < PgAttempts - 1
    THEN pg_attempt' = pg_attempt + 1 /\ UNCHANGED <<pg_page, pg_pc>>
    ELSE pg_pc' = "write" /\ UNCHANGED <<pg_page, pg_attempt>>

PgFailed ==
    IF pg_attempt < PgAttempts - 1
    THEN pg_attempt' = pg_attempt + 1 /\ UNCHANGED <<pg_page, pg_pc>>
    ELSE PgNextPage

\* page 1: fetched outside any try; the page count is read and its partners
\* are flattened; an exception in flatten_partner leaves main
PgFirst ==
    /\ pg_pc = "first"
    /\ LET first == pg_fetch_page(pg_site, 1)
           r == pg_append(first.data)
       IN  /\ pg_total_pages' = pg_total(pg_scraper, first)
           /\ pg_all_rows' = r.rows
           /\ pg_requests' = Append(pg_requests, [page |-> 1, ok |-> r.err = ""])
           /\ IF r.err = "" THEN PgNextPage
              ELSE pg_pc' = "raised" /\ UNCHANGED <<pg_page, pg_attempt>>
    /\ UNCHANGED <<pg_scraper, pg_site, pg_csv, pg_rest>>

\* fetch_page(1) raises: the exception leaves main
PgFirstRaises ==
    /\ pg_pc = "first"
    /\ pg_requests' = Append(pg_requests, [page |-> 1, ok |-> FALSE])
    /\ pg_pc' = "raised"
    /\ UNCHANGED <<pg_scraper, pg_site, pg_page, pg_attempt, pg_total_pages,
                   pg_all_rows, pg_csv, pg_rest>>

\* an attempt for a page 2..N whose fetch returns: the partners are flattened
\* and appended inside the try
PgAttempt ==
    /\ pg_pc = "attempt"
    /\ UNCHANGED <<pg_scraper, pg_site, pg_total_pages, pg_csv, pg_rest>>
    /\ LET r == pg_append(pg_fetch_page(pg_site, pg_page).data)
       IN  /\ pg_all_rows' = pg_all_rows \o r.rows
           /\ pg_requests' = Append(pg_requests, [page |-> pg_page, ok |-> r.err = ""])
           /\ IF r.err = "" THEN PgNextPage ELSE PgFailed

\* an attempt for a page 2..N whose fetch raises
PgAttemptRaises ==
    /\ pg_pc = "attempt"
    /\ UNCHANGED <<pg_scraper, pg_site, pg_total_pages, pg_all_rows, pg_csv, pg_rest>>
    /\ pg_requests' = Append(pg_requests, [page |-> pg_page, ok |-> FALSE])
    /\ PgFailed

\* write the CSV
PgWrite ==
    /\ pg_pc = "write"
    /\ pg_csv' = [written |-> TRUE, header |-> <<"id">>, rows |-> pg_all_rows]
    /\ pg_pc' = "done"
    /\ UNCHANGED <<pg_scraper, pg_site, pg_page, pg_attempt, pg_total_pages,
                   pg_all_rows, pg_requests, pg_rest>>

PgNext == PgFirst \/ PgFirstRaises \/ PgAttempt \/ PgAttemptRaises \/ PgWrite

SpecPG == PgInit /\ [][PgNext]_vars

pg_n == Len(pg_requests)

\* the attempts made for page p
pg_calls(p) == {k \in 1..pg_n : pg_requests[k].page = p}

pg_skipped(p) ==
    Cardinality({k \in pg_calls(p) : ~pg_requests[k].ok}) = PgAttempts

\* C29: page 1 is attempted once and its failure aborts the run before any
\* CSV is written; each page 2..N is attempted at most twice, the second time
\* only after the first failed; a page whose two attempts fail is skipped:
\* every later page up to N is still requested and the CSV is written.
C29_RetryAndSkip ==
    /\ Cardinality(pg_calls(1)) <= 1
    /\ pg_pc # "first" => Cardinality(pg_calls(1)) = 1
    /\ (pg_n > 0 /\ ~pg_requests[1].ok) =>
          pg_pc = "raised" /\ pg_n = 1 /\ ~pg_csv.written
    /\ pg_pc = "raised" => ~pg_csv.written
    /\ \A k \in 1..pg_n : pg_requests[k].page \in 1..Len(pg_site)
    /\ \A p \in 2..Len(pg_site) : Cardinality(pg_calls(p)) <= PgAttempts
    /\ \A k \in 1..(pg_n - 1) :
          /\ pg_requests[k + 1].page = pg_requests[k].page => ~pg_requests[k].ok
          /\ pg_requests[k + 1].page \in {pg_requests[k].page, pg_requests[k].page + 1}
    /\ \A p \in 2..Len(pg_site) :
          pg_skipped(p) =>
              /\ pg_pc \in {"attempt", "write", "done"}
              /\ pg_pc = "attempt" => pg_page > p
    /\ pg_pc \in {"write", "done"} => \A p \in 1..Len(pg_site) : pg_calls(p) # {}
    /\ pg_pc = "done" => pg_csv.written /\ pg_csv.rows = pg_all_rows

\* page 2 of three failed twice, page 3 was fetched, the CSV is written
C29_Witness ==
    /\ pg_pc = "done" /\ Len(pg_site) = 3 /\ pg_skipped(2)
    /\ pg_requests[pg_n] = [page |-> 3, ok |-> TRUE]
    /\ pg_csv.written /\ pg_csv.rows # <<>>

\* the page a row was fetched from
pg_page_of(row) == row.id.v \div 10

\* C30: the partners of one fetched page are added to the output at most
\* once: no partner appears twice in the written rows, and every written row
\* comes from an attempt that did not fail.
C30_NoRowOfFailedAttempt ==
    pg_pc = "done" =>
        /\ \A i, j \in 1..Len(pg_csv.rows) :
              i # j => pg_csv.rows[i].id # pg_csv.rows[j].id
        /\ \A i \in 1..Len(pg_csv.rows) :
              \E k \in 1..pg_n :
                  pg_requests[k].ok /\ pg_requests[k].page = pg_page_of(pg_csv.rows[i])

====
